---- MODULE Spec2Model ----
(***************************************************************************)
(* Model of the Hospital AI Service (backend/ai-service): the model        *)
(* registry (app/core/ml_models.py ModelManager), the application          *)
(* lifespan and health endpoint (main.py) and the prediction dispatch      *)
(* (app/api/v1/api.py).                                                    *)
(*                                                                         *)
(* A timestamp is kept by its relation to the current instant: "now" when  *)
(* it was taken at the current instant, "earlier" once the clock has       *)
(* advanced.  Probabilities are integers in thousandths (700 is 0.7).      *)
(***************************************************************************)
EXTENDS Integers, Sequences, FiniteSets, TLC

VARIABLES
    phase,           \* position of the process in main.lifespan
    manager,         \* app.state.model_manager: "none" or "live"
    kafka,           \* app.state.kafka_client: "none" or "running"
    models,          \* ModelManager.models: name -> model object
    model_metadata,  \* ModelManager.model_metadata: name -> (key -> value)
    disk,            \* the files {name}.joblib under MODEL_STORAGE_PATH
    initQueue,       \* names the loop of initialize() has still to process
    initLog,         \* per name, what happened when initialize() processed it
    cleanupQueue,    \* names the loop of cleanup() has still to process
    saveLog,         \* per name, how its save_model call in cleanup() ended
    last,            \* the outcome of the most recent call or request
    twin,            \* the same request run again with another exception text
    startup,         \* how each step of the startup in lifespan() ended
    calc,            \* a call of a model method: its arguments and its result
    inflight,        \* per name, the worker threads now writing its file
    consumer,        \* KafkaClient.consume_events: the topic and the offsets
    limiter,         \* SecurityMiddleware: _RATE_LIMIT_STORE and the clock
    database         \* app.core.database: engine, async_session_maker, calls

vars == <<phase, manager, kafka, models, model_metadata, disk, initQueue,
          initLog, cleanupQueue, saveLog, last, twin, startup, calc,
          inflight, consumer, limiter, database>>

\* The state outside the model registry and its handlers.
infra == <<inflight, consumer, limiter, database>>

----------------------------------------------------------------------------
(* Bounds of the model *)

MaxBatch == 2

\* The probabilities given to the no-show dispatch, in thousandths: 0..MaxProb.
MaxProb == 1000

\* The longest list of scores given to categorize_risk_levels.
MaxScores == 2

\* The largest number of fields of a feature record.
MaxFields == 2

\* The number of messages on the topic.
MaxMessages == 5

----------------------------------------------------------------------------
(* Names, model objects, files *)

WellKnown == {"no_show_predictor", "risk_scorer"}

\* "dummy" is a name the registry never holds (a batch request may ask for it).
Names == WellKnown \cup {"dummy"}

\* health_check: required = ["no_show_predictor", "risk_scorer"]
Required == <<"no_show_predictor", "risk_scorer">>

Empty == [x \in {} |-> 0]

\* A model object: its class, its is_trained attribute ("missing" when the object
\* has no such attribute) and where the instance comes from.
\* A NoShowPredictor whose constructor marks it trained, as the scorer's does.
NewNoShowPredictor_Trained(origin) ==
    [cls |-> "NoShowPredictor", is_trained |-> "true", origin |-> origin]

NewNoShowPredictor(origin) ==
    [cls |-> "NoShowPredictor", is_trained |-> "false", origin |-> origin]

NewPatientRiskScorer(origin) ==
    [cls |-> "PatientRiskScorer", is_trained |-> "true", origin |-> origin]

\* NoShowPredictor.train always ends with is_trained = True.
Train(m) == [m EXCEPT !.is_trained = "true"]

\* No object (None).
NoModel == [cls |-> "None", is_trained |-> "missing", origin |-> "none"]

\* joblib.dump writes the object's class and attributes, joblib.load gives a
\* new object with them.
Serialize(m) == [cls |-> m.cls, is_trained |-> m.is_trained]

Deserialize(file) ==
    [cls |-> file.cls, is_trained |-> file.is_trained, origin |-> "disk"]

\* There is no file of that name.
NoFile == [cls |-> "NoFile", is_trained |-> "missing"]

\* A file written by another program: an object of another class, with no
\* is_trained attribute and none of the prediction methods.
ForeignFile == [cls |-> "Foreign", is_trained |-> "missing"]

\* The files a storage directory may hold before the first start.
InitialFiles(name) ==
    {NoFile, ForeignFile,
     IF name = "no_show_predictor"
     THEN Serialize(Train(NewNoShowPredictor("baseline")))
     ELSE Serialize(NewPatientRiskScorer("baseline"))}

----------------------------------------------------------------------------
(* Metadata dictionaries *)

\* d.setdefault(name, {})[key] = value
SetDefaultKey(md, name, key, value) ==
    LET entry == IF name \in DOMAIN md THEN md[name] ELSE Empty
    IN  (name :> ((key :> value) @@ entry)) @@ md

\* d[name] = {"loaded_from": src, "load_time": t}   (replaces the entry)
SetLoaded(md, name, src, t) ==
    (name :> (("loaded_from" :> src) @@ ("load_time" :> t))) @@ md

\* datetime.utcnow().isoformat(), and the same timestamp read at a later instant
UtcNow == "now"

Earlier(md) ==
    [n \in DOMAIN md |->
        [k \in DOMAIN md[n] |->
            IF md[n][k] = UtcNow THEN "earlier" ELSE md[n][k]]]

HasKey(md, name, key) == name \in DOMAIN md /\ key \in DOMAIN md[name]

----------------------------------------------------------------------------
(* ModelManager: save, load, train *)

\* save_model(name, model): joblib.dump, then the saved_at stamp; a failure of
\* the dump is logged and not raised.
SaveModel(dk, md, name, model, dumpOk, t) ==
    IF dumpOk
    THEN [disk |-> [dk EXCEPT ![name] = Serialize(model)],
          md |-> SetDefaultKey(md, name, "saved_at", t),
          raised |-> FALSE]
    ELSE [disk |-> dk, md |-> md, raised |-> FALSE]

\* _load_model_from_disk(name): None when there is no file or joblib.load raises.
LoadModelFromDisk(dk, name, loadOk) ==
    IF dk[name] # NoFile /\ loadOk
    THEN [found |-> TRUE, obj |-> Deserialize(dk[name])]
    ELSE [found |-> FALSE, obj |-> NoModel]

\* _train_baseline_model without `self.models[model_name] = model`: the new
\* instance is saved but the registry keeps the placeholder.
TrainBaselineModel_NoInstall(ms, md, dk, name, trainOk, dumpOk, t) ==
    IF ~trainOk
    THEN [models |-> ms, md |-> md, disk |-> dk, raised |-> TRUE]
    ELSE LET model == IF name = "no_show_predictor"
                      THEN Train(NewNoShowPredictor("baseline"))
                      ELSE NewPatientRiskScorer("baseline")
             saved == SaveModel(dk, md, name, model, dumpOk, t)
         IN  [models |-> ms,
              md |-> saved.md, disk |-> saved.disk, raised |-> saved.raised]

\* _train_baseline_model(name): a new instance, trained, installed, saved.
\* trainOk = FALSE: the routine raises before it installs the new instance.
TrainBaselineModel(ms, md, dk, name, trainOk, dumpOk, t) ==
    IF ~trainOk
    THEN [models |-> ms, md |-> md, disk |-> dk, raised |-> TRUE]
    ELSE LET model == IF name = "no_show_predictor"
                      THEN Train(NewNoShowPredictor("baseline"))
                      ELSE NewPatientRiskScorer("baseline")
             saved == SaveModel(dk, md, name, model, dumpOk, t)
         IN  [models |-> (name :> model) @@ ms,
              md |-> saved.md, disk |-> saved.disk, raised |-> saved.raised]

\* initialize() without the try around the baseline training: the exception
\* leaves the loop.
InitializeName_NoTry(ms, md, dk, name, loadOk, trainOk, dumpOk, t) ==
    LET loaded == LoadModelFromDisk(dk, name, loadOk)
        trained == TrainBaselineModel(ms, md, dk, name, trainOk, dumpOk, t)
    IN  IF loaded.found
        THEN [models |-> (name :> loaded.obj) @@ ms,
              md |-> SetLoaded(md, name, "disk", t),
              disk |-> dk, raised |-> FALSE]
        ELSE IF ~trained.raised
        THEN [models |-> trained.models,
              md |-> SetLoaded(trained.md, name, "baseline", t),
              disk |-> trained.disk, raised |-> FALSE]
        ELSE [models |-> trained.models, md |-> trained.md,
              disk |-> trained.disk, raised |-> TRUE]

\* One iteration of the loop of initialize(): the loaded object is installed
\* and tagged "disk"; otherwise the baseline is trained and tagged "baseline";
\* an exception of the training is logged and the loop goes on.
InitializeName(ms, md, dk, name, loadOk, trainOk, dumpOk, t) ==
    LET loaded == LoadModelFromDisk(dk, name, loadOk)
        trained == TrainBaselineModel(ms, md, dk, name, trainOk, dumpOk, t)
    IN  IF loaded.found
        THEN [models |-> (name :> loaded.obj) @@ ms,
              md |-> SetLoaded(md, name, "disk", t),
              disk |-> dk, raised |-> FALSE]
        ELSE IF ~trained.raised
        THEN [models |-> trained.models,
              md |-> SetLoaded(trained.md, name, "baseline", t),
              disk |-> trained.disk, raised |-> FALSE]
        ELSE [models |-> trained.models, md |-> trained.md,
              disk |-> trained.disk, raised |-> FALSE]

\* What happened in one iteration: whether the file was absent, failed to load
\* or loaded; whether the training was skipped, raised or ran; whether the
\* dump of the trained model was skipped, failed or wrote the file.
InitEvents(dk, name, loadOk, trainOk, dumpOk) ==
    LET load == IF dk[name] = NoFile THEN "absent"
                ELSE IF loadOk THEN "ok" ELSE "error"
        train == IF load = "ok" THEN "skipped"
                 ELSE IF trainOk THEN "ran" ELSE "raised"
        dump == IF train # "ran" THEN "skipped"
                ELSE IF dumpOk THEN "written" ELSE "failed"
    IN  [load |-> load, train |-> train, dump |-> dump]

----------------------------------------------------------------------------
(* Initial state: the process has not started; the storage directory holds
   any combination of files. *)

\* How the steps of the startup ended: "pending", "ok", "failed" or "skipped".
StartupRecord(db, redis, mgr, kf) ==
    [db |-> db, redis |-> redis, manager |-> mgr, kafka |-> kf]

NotStarted == StartupRecord("pending", "pending", "pending", "pending")

\* No model method has been called.
NoCalc == [fn |-> "none"]

\* No thread is writing a model file.
NoWriters == [n \in WellKnown |-> <<>>]

\* consume_events has not been called: no consumer runs, the group has no
\* committed offset, no callback has run.
NoConsumer == [state |-> "none", position |-> 0, committed |-> 0,
               done |-> {}, failed |-> {}]

\* The client addresses of the requests; "unknown" when a request has none.
Clients == {"10.0.0.1", "unknown"}

\* A client that has no entry in _RATE_LIMIT_STORE.  An entry holds the
\* seconds since its ts (now - ts) and its count.
NoBucket == [present |-> FALSE, age |-> 0, count |-> 0]

\* No request has been answered by the middleware.
NoAnswer == [client |-> "none", status |-> 0, count |-> 0, arrivedAge |-> 0,
             reset |-> FALSE, forwarded |-> FALSE]

\* _RATE_LIMIT_STORE = {}; `forwarded` counts, per client, the requests handed
\* to call_next in the client's current window, `pending` the requests that
\* are awaiting call_next.
NoLimiter == [store |-> [c \in Clients |-> NoBucket],
              forwarded |-> [c \in Clients |-> 0],
              pending |-> 0,
              last |-> NoAnswer]

\* app.core.database as imported: engine = None, async_session_maker = None.
\* `tested` tells whether a connectivity test has succeeded in this process,
\* `log` lists the calls of init_db and get_db with what they gave.
NoDb == [engine |-> "None", async_session_maker |-> "None", tested |-> FALSE,
         log |-> <<>>]

\* The record of a call: every field has a default; a handler fills in its own.
Idle == [op |-> "none", name |-> "none", raised |-> "none", ret |-> NoModel,
         healthy |-> FALSE, status |-> 0, message |-> "none", top |-> "none",
         svcModels |-> "none", svcKafka |-> "none", loaded |-> {},
         excCls |-> "none", excText |-> "none",   \* what log_exception was given
         prediction |-> -1, probability |-> -1, risk |-> "none",
         predictions |-> <<>>, probabilities |-> <<>>, risks |-> <<>>,
         explanations |-> <<>>, native |-> FALSE,
         \* which optional fields of the response are not None
         hasProbabilities |-> FALSE, hasRisks |-> FALSE,
         hasExplanations |-> FALSE,
         called |-> {},        \* the model methods the handler invoked
         rows |-> <<>>,        \* the rows of a batch, by their probabilities
         valid |-> "none"]     \* how the request body validated

Init ==
    /\ phase = "boot"
    /\ manager = "none"
    /\ kafka = "none"
    /\ models = Empty
    /\ model_metadata = Empty
    /\ disk \in {f \in [WellKnown -> UNION {InitialFiles(n) : n \in WellKnown}] :
                    \A n \in WellKnown : f[n] \in InitialFiles(n)}
    /\ initQueue = <<>>
    /\ initLog = Empty
    /\ cleanupQueue = <<>>
    /\ saveLog = Empty
    /\ last = Idle
    /\ twin = Idle
    /\ startup = NotStarted
    /\ calc = NoCalc
    /\ inflight = NoWriters
    /\ consumer = NoConsumer
    /\ limiter = NoLimiter
    /\ database = NoDb

----------------------------------------------------------------------------
(* main.lifespan: startup *)

\* init_db() or the Redis ping raises: the outer except logs and calls sys.exit(1).
StartupFatal ==
    /\ phase = "boot"
    /\ phase' = "exited"
    /\ \E failing \in {"db", "redis"} :
          startup' = IF failing = "db"
                     THEN StartupRecord("failed", "pending", "pending", "pending")
                     ELSE StartupRecord("ok", "failed", "pending", "pending")
    /\ UNCHANGED calc
    /\ UNCHANGED infra
    /\ last' = Idle
    /\ twin' = Idle
    /\ UNCHANGED <<manager, kafka, models, model_metadata, disk,
                   initQueue, initLog, cleanupQueue, saveLog>>

\* A startup that keeps the ModelManager it constructed when its
\* initialization failed, with the empty registry.
StartupWithoutManager_KeepManager ==
    /\ phase \in {"boot", "initfailed"}
    /\ \E kafkaOk \in BOOLEAN :
          \E why \in IF phase = "boot" THEN {"skipped", "failed"} ELSE {"failed"} :
             /\ kafka' = IF kafkaOk THEN "running" ELSE "none"
             /\ startup' = StartupRecord("ok", "ok", why,
                                         IF kafkaOk THEN "ok" ELSE "failed")
             /\ manager' = IF why = "failed" THEN "live" ELSE "none"
    /\ models' = Empty
    /\ model_metadata' = Empty
    /\ phase' = "serving"
    /\ UNCHANGED calc
    /\ UNCHANGED infra
    /\ last' = Idle
    /\ twin' = Idle
    /\ UNCHANGED <<disk, initQueue, initLog, cleanupQueue, saveLog>>

\* A startup in which the failure of the Kafka client reaches the outer except
\* and ends the process.
StartupWithoutManager_KafkaFatal ==
    /\ phase \in {"boot", "initfailed"}
    /\ \E kafkaOk \in BOOLEAN :
          \E why \in IF phase = "boot" THEN {"skipped", "failed"} ELSE {"failed"} :
             /\ kafka' = IF kafkaOk THEN "running" ELSE "none"
             /\ startup' = StartupRecord("ok", "ok", why,
                                         IF kafkaOk THEN "ok" ELSE "failed")
             /\ phase' = IF kafkaOk THEN "serving" ELSE "exited"
    /\ manager' = "none"
    /\ models' = Empty
    /\ model_metadata' = Empty
    /\ UNCHANGED calc
    /\ UNCHANGED infra
    /\ last' = Idle
    /\ twin' = Idle
    /\ UNCHANGED <<disk, initQueue, initLog, cleanupQueue, saveLog>>

\* SKIP_MODEL_LOADING is set, or ModelManager() or initialize() raises:
\* model_manager = None.  Then the Kafka client starts or fails, and the
\* service serves.
StartupWithoutManager ==
    /\ phase \in {"boot", "initfailed"}
    /\ \E kafkaOk \in BOOLEAN :
          \E why \in IF phase = "boot" THEN {"skipped", "failed"} ELSE {"failed"} :
             /\ kafka' = IF kafkaOk THEN "running" ELSE "none"
             /\ startup' = StartupRecord("ok", "ok", why,
                                         IF kafkaOk THEN "ok" ELSE "failed")
    /\ manager' = "none"
    /\ models' = Empty
    /\ model_metadata' = Empty
    /\ phase' = "serving"
    /\ UNCHANGED calc
    /\ UNCHANGED infra
    /\ last' = Idle
    /\ twin' = Idle
    /\ UNCHANGED <<disk, initQueue, initLog, cleanupQueue, saveLog>>

\* ModelManager(): empty dictionaries.
ConstructManager ==
    /\ phase = "boot"
    /\ models' = Empty
    /\ model_metadata' = Empty
    /\ phase' = "constructed"
    /\ startup' = StartupRecord("ok", "ok", "pending", "pending")
    /\ UNCHANGED calc
    /\ UNCHANGED infra
    /\ last' = Idle
    /\ twin' = Idle
    /\ UNCHANGED <<manager, kafka, disk, initQueue, initLog,
                   cleanupQueue, saveLog>>

\* The first statements of initialize(): the two placeholder instances.
InitializeBegin ==
    /\ phase = "constructed"
    /\ models' = ("no_show_predictor" :> NewNoShowPredictor("placeholder"))
                 @@ ("risk_scorer" :> NewPatientRiskScorer("placeholder"))
    /\ initQueue' = Required
    /\ initLog' = Empty
    /\ phase' = "initializing"
    /\ UNCHANGED <<startup, calc>>
    /\ UNCHANGED infra
    /\ last' = Idle
    /\ twin' = Idle
    /\ UNCHANGED <<manager, kafka, model_metadata, disk, cleanupQueue,
                   saveLog>>

\* One iteration of `for name in list(self.models.keys())`.
InitializeStep ==
    /\ phase = "initializing"
    /\ initQueue # <<>>
    /\ \E loadOk \in BOOLEAN, trainOk \in BOOLEAN, dumpOk \in BOOLEAN :
          LET name == Head(initQueue)
              r == InitializeName(models, model_metadata, disk, name, loadOk,
                                  trainOk, dumpOk, UtcNow)
          IN  /\ models' = r.models
              /\ model_metadata' = r.md
              /\ disk' = r.disk
              /\ initLog' = (name :> InitEvents(disk, name, loadOk, trainOk, dumpOk))
                             @@ initLog
              /\ initQueue' = IF r.raised THEN <<>> ELSE Tail(initQueue)
              /\ phase' = IF r.raised THEN "initfailed" ELSE phase
    /\ UNCHANGED <<startup, calc>>
    /\ UNCHANGED infra
    /\ last' = Idle
    /\ twin' = Idle
    /\ UNCHANGED <<manager, kafka, cleanupQueue, saveLog>>

\* initialize() returned: the Kafka client starts or fails, the manager is
\* stored in app.state and the service serves.
InitializeDone ==
    /\ phase = "initializing"
    /\ initQueue = <<>>
    /\ \E kafkaOk \in BOOLEAN :
          /\ kafka' = IF kafkaOk THEN "running" ELSE "none"
          /\ startup' = StartupRecord("ok", "ok", "ok",
                                      IF kafkaOk THEN "ok" ELSE "failed")
    /\ manager' = "live"
    /\ phase' = "serving"
    /\ UNCHANGED calc
    /\ UNCHANGED infra
    /\ last' = Idle
    /\ twin' = Idle
    /\ UNCHANGED <<models, model_metadata, disk, initQueue, initLog,
                   cleanupQueue, saveLog>>

----------------------------------------------------------------------------
(* ModelManager: health_check, get_loaded_models, get_model *)

\* getattr(m, "is_trained", False)
IsTrained(m) == m.is_trained = "true"

\* The loop of health_check over `required`: the first name that is absent or
\* not trained ends it with False.
RECURSIVE HealthCheckFrom(_, _)
HealthCheckFrom(required, ms) ==
    IF required = <<>> THEN TRUE
    ELSE LET name == Head(required)
         IN  IF name \notin DOMAIN ms THEN FALSE
             ELSE IF ~IsTrained(ms[name]) THEN FALSE
             ELSE HealthCheckFrom(Tail(required), ms)

\* health_check that looks only at the presence of the required names.
HealthCheck_PresenceOnly(ms) == \A i \in DOMAIN Required : Required[i] \in DOMAIN ms

HealthCheck(ms) == HealthCheckFrom(Required, ms)

\* get_loaded_models()
GetLoadedModels(ms) == DOMAIN ms

\* get_model that stamps with model_metadata[name]["last_used"] = ...: a name
\* without a metadata entry raises KeyError.
GetModel_StrictStamp(ms, md, name, t) ==
    IF name \notin DOMAIN ms \/ name \notin DOMAIN md
    THEN [raised |-> "KeyError", ret |-> NoModel, md |-> md]
    ELSE [raised |-> "none", ret |-> ms[name],
          md |-> SetDefaultKey(md, name, "last_used", t)]

\* get_model that stamps last_used before it looks the name up.
GetModel_StampFirst(ms, md, name, t) ==
    IF name \notin DOMAIN ms
    THEN [raised |-> "KeyError", ret |-> NoModel,
          md |-> SetDefaultKey(md, name, "last_used", t)]
    ELSE [raised |-> "none", ret |-> ms[name],
          md |-> SetDefaultKey(md, name, "last_used", t)]

\* get_model(name): KeyError for an absent name; otherwise the last_used stamp
\* and the registered instance.
GetModel(ms, md, name, t) ==
    IF name \notin DOMAIN ms
    THEN [raised |-> "KeyError", ret |-> NoModel, md |-> md]
    ELSE [raised |-> "none", ret |-> ms[name],
          md |-> SetDefaultKey(md, name, "last_used", t)]

----------------------------------------------------------------------------
(* main.py: GET /health and the exception handler *)

\* http_exception_handler: the JSON error body of an HTTPException.
HttpError(op, status, detail) ==
    [Idle EXCEPT !.op = op, !.status = status, !.message = detail]

\* GET /health that takes a missing manager for healthy models.
HealthEndpoint_NoManagerHealthy(mgr, ms, kf, redisOk) ==
    IF ~redisOk
    THEN HttpError("GET /health", 503, "Service unhealthy")
    ELSE LET model_status == IF mgr = "none" THEN TRUE ELSE HealthCheck(ms)
         IN  [Idle EXCEPT !.op = "GET /health", !.status = 200,
                          !.top = "healthy",
                          !.svcModels = IF model_status THEN "healthy" ELSE "unhealthy",
                          !.svcKafka = IF kf = "running" THEN "healthy" ELSE "unhealthy",
                          !.loaded = IF mgr = "none" THEN {} ELSE GetLoadedModels(ms)]

\* GET /health.  A failing Redis ping gives 503; otherwise the body's top-level
\* status is the literal "healthy" and the models and kafka entries carry the
\* two optional checks.
HealthEndpoint(mgr, ms, kf, redisOk) ==
    IF ~redisOk
    THEN HttpError("GET /health", 503, "Service unhealthy")
    ELSE LET model_status == IF mgr = "none" THEN FALSE ELSE HealthCheck(ms)
             models_loaded == IF mgr = "none" THEN {} ELSE GetLoadedModels(ms)
             kafka_status == kf = "running"
         IN  [Idle EXCEPT !.op = "GET /health", !.status = 200,
                          !.top = "healthy",
                          !.svcModels = IF model_status THEN "healthy" ELSE "unhealthy",
                          !.svcKafka = IF kafka_status THEN "healthy" ELSE "unhealthy",
                          !.loaded = models_loaded]

----------------------------------------------------------------------------
(* Calls on the manager object *)

\* The manager object exists from ModelManager() on.
ManagerExists == phase \in {"constructed", "initializing", "serving"} /\
                 (phase = "serving" => manager = "live")

\* await manager.health_check()
HealthCheckCall ==
    /\ ManagerExists
    /\ UNCHANGED <<startup, calc>>
    /\ UNCHANGED infra
    /\ last' = [Idle EXCEPT !.op = "health_check", !.healthy = HealthCheck(models)]
    /\ twin' = Idle
    /\ UNCHANGED <<phase, manager, kafka, models, model_metadata, disk,
                   initQueue, initLog, cleanupQueue, saveLog>>

\* manager.get_model(name)
GetModelCall ==
    /\ ManagerExists
    /\ \E name \in Names :
          LET g == GetModel(models, model_metadata, name, UtcNow)
          IN  /\ model_metadata' = g.md
              /\ UNCHANGED <<startup, calc>>
              /\ UNCHANGED infra
              /\ last' = [Idle EXCEPT !.op = "get_model", !.name = name,
                                      !.raised = g.raised, !.ret = g.ret]
    /\ twin' = Idle
    /\ UNCHANGED <<phase, manager, kafka, models, disk, initQueue, initLog,
                   cleanupQueue, saveLog>>

\* GET /health
HealthRequest ==
    /\ phase = "serving"
    /\ \E redisOk \in BOOLEAN :
          last' = HealthEndpoint(manager, models, kafka, redisOk)
    /\ UNCHANGED <<startup, calc>>
    /\ UNCHANGED infra
    /\ twin' = Idle
    /\ UNCHANGED <<phase, manager, kafka, models, model_metadata, disk,
                   initQueue, initLog, cleanupQueue, saveLog>>

----------------------------------------------------------------------------
(* app/api/v1/api.py: the prediction dispatch *)

\* hasattr(model, attr), by the class of the object
HasAttr(m, attr) ==
    CASE m.cls = "NoShowPredictor" ->
            attr \in {"train", "predict_proba", "predict_proba_single", "predict",
                      "predict_batch", "is_trained"}
      [] m.cls = "PatientRiskScorer" ->
            attr \in {"calculate_cardiovascular_risk", "calculate_diabetes_risk",
                      "calculate_readmission_risk", "calculate_composite_risk",
                      "categorize_risk_levels", "is_trained"}
      [] m.cls = "Estimator" -> attr \in {"fit", "predict", "predict_proba"}
      [] OTHER -> FALSE

\* The exception classes a prediction call may raise, and isinstance against
\* (ValueError, TypeError).
ExcClasses == {"ValueError", "TypeError", "KeyError", "RuntimeError"}

IsValueOrTypeError(cls) == cls \in {"ValueError", "TypeError"}

\* The texts an exception may carry.
ExcTexts == {"internal details: secret", "bad features: leak"}

\* What the call of a model method does: it returns, or raises cls(text).
Returns == [kind |-> "ok", cls |-> "none", text |-> "none"]

Raises(cls, text) == [kind |-> "raise", cls |-> cls, text |-> text]

\* The first run of a request raises with the first text, its twin with the
\* other one.
FirstText == "internal details: secret"

Outcomes == {Returns} \cup {Raises(c, FirstText) : c \in ExcClasses}

\* Calling a method the object does not have raises AttributeError.
NoSuchMethod == Raises("AttributeError", "object has no attribute")

\* The same outcome with the other exception text.
OtherText(out) ==
    IF out.kind = "raise"
    THEN Raises(out.cls, CHOOSE x \in ExcTexts : x # out.text)
    ELSE out

\* Probabilities and scores a model may return, in thousandths.
ProbSamples == {399, 500, 700}

\* What log_exception receives: the class and the text of the exception.
Logged(resp, cls, text) == [resp EXCEPT !.excCls = cls, !.excText = text]

\* The except clauses that answer with str(e) as the detail of the 500.
ExceptionToHttp_Leak(op, cls, text) ==
    IF IsValueOrTypeError(cls)
    THEN Logged(HttpError(op, 400, "Invalid input"), cls, text)
    ELSE Logged(HttpError(op, 500, text), cls, text)

\* The except clauses that catch ValueError alone as an input error.
ExceptionToHttp_OnlyValueError(op, cls, text) ==
    IF cls = "ValueError"
    THEN Logged(HttpError(op, 400, "Invalid input"), cls, text)
    ELSE Logged(HttpError(op, 500, "Prediction failed"), cls, text)

\* The except clauses merged with the one around get_model: a KeyError of the
\* prediction call is answered like a missing model.
ExceptionToHttp_KeyErrorNotFound(op, cls, text) ==
    IF IsValueOrTypeError(cls)
    THEN Logged(HttpError(op, 400, "Invalid input"), cls, text)
    ELSE IF cls = "KeyError"
    THEN Logged(HttpError(op, 404, "Model not found"), cls, text)
    ELSE Logged(HttpError(op, 500, "Prediction failed"), cls, text)

\* The except clauses of the three predict handlers: ValueError and TypeError
\* give 400 "Invalid input", any other exception 500 "Prediction failed"; the
\* exception goes to log_exception only.
ExceptionToHttp(op, cls, text) ==
    CASE op = "predict_no_show" ->
            IF IsValueOrTypeError(cls)
            THEN Logged(HttpError(op, 400, "Invalid input"), cls, text)
            ELSE Logged(HttpError(op, 500, "Prediction failed"), cls, text)
      [] op = "predict_risk" ->
            IF IsValueOrTypeError(cls)
            THEN Logged(HttpError(op, 400, "Invalid input"), cls, text)
            ELSE Logged(HttpError(op, 500, "Prediction failed"), cls, text)
      [] op = "predict_batch" ->
            IF IsValueOrTypeError(cls)
            THEN Logged(HttpError(op, 400, "Invalid input"), cls, text)
            ELSE Logged(HttpError(op, 500, "Prediction failed"), cls, text)

\* The thresholds of the no-show path, in thousandths.
LabelThreshold == 500
HighThreshold == 700
MediumThreshold == 400
CriticalThreshold == 850

\* RiskBucket with the thresholds exclusive.
RiskBucket_Exclusive(p) ==
    IF p > HighThreshold THEN "HIGH"
    ELSE IF p > MediumThreshold THEN "MEDIUM" ELSE "LOW"

\* categorize_risk_levels on the scale of the no-show path.
CategorizeRiskLevel_ThreeLevel(sc) ==
    IF sc >= HighThreshold THEN "HIGH"
    ELSE IF sc >= MediumThreshold THEN "MEDIUM" ELSE "LOW"

\* A label that is 1 above the HIGH threshold only.
Label_AboveHigh(p) == IF p > HighThreshold THEN 1 ELSE 0

\* int(prob >= 0.5)
Label(p) == IF p >= LabelThreshold THEN 1 ELSE 0

\* "HIGH" if prob >= 0.7 else ("MEDIUM" if prob >= 0.4 else "LOW")
RiskBucket(p) ==
    IF p >= HighThreshold THEN "HIGH"
    ELSE IF p >= MediumThreshold THEN "MEDIUM" ELSE "LOW"

\* PatientRiskScorer.categorize_risk_levels, for one score
CategorizeRiskLevel(sc) ==
    IF sc >= CriticalThreshold THEN "CRITICAL"
    ELSE IF sc >= HighThreshold THEN "HIGH"
    ELSE IF sc >= MediumThreshold THEN "MEDIUM" ELSE "LOW"

\* POST /predict/no-show.  `out` is what the model's probability method does,
\* `p` the probability it returns.
PredictNoShow(mgr, ms, md, t, out, p) ==
    LET op == "predict_no_show"
        g == GetModel(ms, md, "no_show_predictor", t)
        method == IF HasAttr(g.ret, "predict_proba_single")
                  THEN {"predict_proba_single"}
                  ELSE IF HasAttr(g.ret, "predict_proba")
                  THEN {"predict_proba"} ELSE {}
        call == IF method # {} THEN out ELSE NoSuchMethod
    IN  IF mgr = "none"
        THEN [resp |-> [HttpError(op, 503, "Model manager not available")
                            EXCEPT !.valid = "ok"],
              md |-> md]
        ELSE IF g.raised = "KeyError"
        THEN [resp |-> [HttpError(op, 404, "Model not found") EXCEPT !.valid = "ok"],
              md |-> g.md]
        ELSE IF call.kind = "raise"
        THEN [resp |-> [ExceptionToHttp(op, call.cls, call.text)
                            EXCEPT !.valid = "ok", !.called = method],
              md |-> g.md]
        ELSE [resp |-> [Idle EXCEPT !.op = op, !.status = 200, !.valid = "ok",
                                    !.called = method,
                                    !.prediction = Label(p), !.probability = p,
                                    !.risk = RiskBucket(p)],
              md |-> g.md]

\* POST /predict/risk-score.  `out` is what calculate_composite_risk does,
\* `sc` the score it returns.
PredictRisk(mgr, ms, md, t, out, sc) ==
    LET op == "predict_risk"
        g == GetModel(ms, md, "risk_scorer", t)
        method == IF HasAttr(g.ret, "calculate_composite_risk")
                  THEN {"calculate_composite_risk"} ELSE {}
        call == IF method # {} THEN out ELSE NoSuchMethod
        categorize == HasAttr(g.ret, "categorize_risk_levels")
    IN  IF mgr = "none"
        THEN [resp |-> [HttpError(op, 503, "Model manager not available")
                            EXCEPT !.valid = "ok"],
              md |-> md]
        ELSE IF g.raised = "KeyError"
        THEN [resp |-> [HttpError(op, 404, "Model not found") EXCEPT !.valid = "ok"],
              md |-> g.md]
        ELSE IF call.kind = "raise"
        THEN [resp |-> [ExceptionToHttp(op, call.cls, call.text)
                            EXCEPT !.valid = "ok", !.called = method],
              md |-> g.md]
        ELSE [resp |-> [Idle EXCEPT !.op = op, !.status = 200, !.valid = "ok",
                                    !.called =
                                        IF categorize
                                        THEN method \cup {"categorize_risk_levels"}
                                        ELSE method,
                                    !.probability = sc,
                                    !.risk = IF categorize
                                             THEN CategorizeRiskLevel(sc)
                                             ELSE "UNKNOWN"],
              md |-> g.md]

\* predict_batch whose labels are 1 above the threshold only.
NoShowPredictBatch_LabelAbove(ps) ==
    [predictions |-> [i \in DOMAIN ps |-> IF ps[i] > LabelThreshold THEN 1 ELSE 0],
     probabilities |-> ps,
     risk_levels |-> [i \in DOMAIN ps |-> RiskBucket(ps[i])],
     explanations |-> [i \in DOMAIN ps |-> "None"]]

\* NoShowPredictor.predict on rows whose probabilities are `ps`
NoShowPredict(ps) == [i \in DOMAIN ps |-> IF ps[i] >= LabelThreshold THEN 1 ELSE 0]

\* NoShowPredictor.predict_batch on rows whose probabilities are `ps`
NoShowPredictBatch(ps) ==
    [predictions |-> [i \in DOMAIN ps |-> Label(ps[i])],
     probabilities |-> ps,
     risk_levels |-> [i \in DOMAIN ps |-> RiskBucket(ps[i])],
     explanations |-> [i \in DOMAIN ps |-> "None"]]

\* predict_batch that takes the native batch method only when the model has
\* no predict method.
PredictBatch_PredictFirst(mgr, ms, md, t, name, out, ps) ==
    LET op == "predict_batch"
        g == GetModel(ms, md, name, t)
        native == HasAttr(g.ret, "predict_batch") /\ ~HasAttr(g.ret, "predict")
        method == IF native THEN {"predict_batch"}
                  ELSE IF HasAttr(g.ret, "predict") THEN {"predict"} ELSE {}
        proba == (~native) /\ HasAttr(g.ret, "predict_proba")
        call == IF method # {} THEN out ELSE NoSuchMethod
        raw == NoShowPredictBatch(ps)
    IN  IF mgr = "none"
        THEN [resp |-> [HttpError(op, 503, "Model manager not available")
                            EXCEPT !.valid = "ok", !.name = name],
              md |-> md]
        ELSE IF g.raised = "KeyError"
        THEN [resp |-> [HttpError(op, 404, "Model not found")
                            EXCEPT !.valid = "ok", !.name = name],
              md |-> g.md]
        ELSE IF call.kind = "raise"
        THEN [resp |-> [ExceptionToHttp(op, call.cls, call.text)
                            EXCEPT !.valid = "ok", !.name = name,
                                   !.called = method],
              md |-> g.md]
        ELSE IF native
        THEN [resp |-> [Idle EXCEPT !.op = op, !.name = name, !.status = 200,
                                    !.valid = "ok", !.called = method,
                                    !.rows = ps, !.native = TRUE,
                                    !.predictions = raw.predictions,
                                    !.probabilities = raw.probabilities,
                                    !.hasProbabilities = TRUE,
                                    !.risks = raw.risk_levels,
                                    !.hasRisks = TRUE,
                                    !.explanations = raw.explanations,
                                    !.hasExplanations = TRUE],
              md |-> g.md]
        ELSE [resp |-> [Idle EXCEPT !.op = op, !.name = name, !.status = 200,
                                    !.valid = "ok", !.rows = ps,
                                    !.called = IF proba
                                               THEN method \cup {"predict_proba"}
                                               ELSE method,
                                    !.predictions = [i \in DOMAIN ps |-> Label(ps[i])],
                                    !.probabilities = IF proba THEN ps ELSE <<>>,
                                    !.hasProbabilities = proba],
              md |-> g.md]

\* The body of predict_batch.  `out` is what the model's batch or predict
\* method does, `ps` the probabilities of the rows.
PredictBatch(mgr, ms, md, t, name, out, ps) ==
    LET op == "predict_batch"
        g == GetModel(ms, md, name, t)
        native == HasAttr(g.ret, "predict_batch")
        method == IF native THEN {"predict_batch"}
                  ELSE IF HasAttr(g.ret, "predict") THEN {"predict"} ELSE {}
        proba == (~native) /\ HasAttr(g.ret, "predict_proba")
        call == IF method # {} THEN out ELSE NoSuchMethod
        raw == NoShowPredictBatch(ps)
    IN  IF mgr = "none"
        THEN [resp |-> [HttpError(op, 503, "Model manager not available")
                            EXCEPT !.valid = "ok", !.name = name],
              md |-> md]
        ELSE IF g.raised = "KeyError"
        THEN [resp |-> [HttpError(op, 404, "Model not found")
                            EXCEPT !.valid = "ok", !.name = name],
              md |-> g.md]
        ELSE IF call.kind = "raise"
        THEN [resp |-> [ExceptionToHttp(op, call.cls, call.text)
                            EXCEPT !.valid = "ok", !.name = name,
                                   !.called = method],
              md |-> g.md]
        ELSE IF native
        THEN [resp |-> [Idle EXCEPT !.op = op, !.name = name, !.status = 200,
                                    !.valid = "ok", !.called = method,
                                    !.rows = ps, !.native = TRUE,
                                    !.predictions = raw.predictions,
                                    !.probabilities = raw.probabilities,
                                    !.hasProbabilities = TRUE,
                                    !.risks = raw.risk_levels,
                                    !.hasRisks = TRUE,
                                    !.explanations = raw.explanations,
                                    !.hasExplanations = TRUE],
              md |-> g.md]
        ELSE [resp |-> [Idle EXCEPT !.op = op, !.name = name, !.status = 200,
                                    !.valid = "ok", !.rows = ps,
                                    !.called = IF proba
                                               THEN method \cup {"predict_proba"}
                                               ELSE method,
                                    !.predictions = [i \in DOMAIN ps |-> Label(ps[i])],
                                    !.probabilities = IF proba THEN ps ELSE <<>>,
                                    !.hasProbabilities = proba],
              md |-> g.md]

\* The request bodies of POST /predict/batch: both required fields present,
\* or one of them missing.
Payloads == {"ok", "no_data", "no_model_name"}

\* POST /predict/batch without the validation of the body: a missing field
\* reads as an empty one.
PostPredictBatch_NoValidation(mgr, ms, md, t, payload, name, out, ps) ==
    LET r == PredictBatch(mgr, ms, md, t,
                          IF payload = "no_model_name" THEN "" ELSE name,
                          out, IF payload = "no_data" THEN <<>> ELSE ps)
    IN  [r EXCEPT !.resp.valid = payload]

\* POST /predict/batch: the body is validated against BatchPredictRequest, whose
\* two fields are required, before predict_batch is called; a body that does
\* not validate is answered 422.
PostPredictBatch(mgr, ms, md, t, payload, name, out, ps) ==
    IF payload # "ok"
    THEN [resp |-> [HttpError("predict_batch", 422, "Validation failed")
                        EXCEPT !.valid = payload],
          md |-> md]
    ELSE PredictBatch(mgr, ms, md, t, name, out, ps)

\* The probabilities of the rows of a batch, and the batches of at most
\* MaxBatch rows.
BatchSamples == {399, 700}

Batches == UNION {[1..n -> BatchSamples] : n \in 0..MaxBatch}

\* What a request meets in the model it resolves: the prediction call returns
\* the probability p (the probabilities ps), or it raises.
SingleCalls ==
    {[out |-> Returns, p |-> p] : p \in ProbSamples}
    \cup {[out |-> o, p |-> 0] : o \in Outcomes \ {Returns}}

BatchCalls ==
    {[out |-> Returns, ps |-> ps] : ps \in Batches}
    \cup {[out |-> o, ps |-> <<>>] : o \in Outcomes \ {Returns}}

\* POST /api/v1/predict/no-show
NoShowRequest ==
    /\ phase = "serving"
    /\ \E c \in SingleCalls :
          LET r == PredictNoShow(manager, models, model_metadata, UtcNow,
                                 c.out, c.p)
              r2 == PredictNoShow(manager, models, model_metadata, UtcNow,
                                  OtherText(c.out), c.p)
          IN  /\ last' = r.resp
              /\ twin' = r2.resp
              /\ model_metadata' = r.md
    /\ UNCHANGED <<phase, manager, kafka, models, disk, initQueue, initLog,
                   cleanupQueue, saveLog, startup, calc>>
    /\ UNCHANGED infra

\* POST /api/v1/predict/risk-score
RiskRequest ==
    /\ phase = "serving"
    /\ \E c \in SingleCalls :
          LET r == PredictRisk(manager, models, model_metadata, UtcNow,
                               c.out, c.p)
              r2 == PredictRisk(manager, models, model_metadata, UtcNow,
                                OtherText(c.out), c.p)
          IN  /\ last' = r.resp
              /\ twin' = r2.resp
              /\ model_metadata' = r.md
    /\ UNCHANGED <<phase, manager, kafka, models, disk, initQueue, initLog,
                   cleanupQueue, saveLog, startup, calc>>
    /\ UNCHANGED infra

\* The batch requests: a well-known name with any call, the name the registry
\* never holds, for which no model is called, or a body with a field missing.
BatchRequests ==
    {[payload |-> "ok", name |-> n, call |-> c] : n \in WellKnown, c \in BatchCalls}
    \cup {[payload |-> "ok", name |-> n, call |-> [out |-> Returns, ps |-> <<>>]] :
              n \in Names \ WellKnown}
    \cup {[payload |-> "no_data", name |-> n,
           call |-> [out |-> Returns, ps |-> <<>>]] : n \in Names}
    \cup {[payload |-> "no_model_name", name |-> "none",
           call |-> [out |-> Returns, ps |-> <<>>]]}

\* POST /api/v1/predict/batch
BatchRequest ==
    /\ phase = "serving"
    /\ \E q \in BatchRequests :
          LET r == PostPredictBatch(manager, models, model_metadata, UtcNow,
                                    q.payload, q.name, q.call.out, q.call.ps)
              r2 == PostPredictBatch(manager, models, model_metadata, UtcNow,
                                     q.payload, q.name, OtherText(q.call.out),
                                     q.call.ps)
          IN  /\ last' = r.resp
              /\ twin' = r2.resp
              /\ model_metadata' = r.md
    /\ UNCHANGED <<phase, manager, kafka, models, disk, initQueue, initLog,
                   cleanupQueue, saveLog, startup, calc>>
    /\ UNCHANGED infra

----------------------------------------------------------------------------
(* main.lifespan: shutdown *)

\* cleanup() whose loop ends at the first model that could not be saved.
CleanupIteration_Abort(dk, md, queue, ms, dumpOk, t) ==
    LET name == Head(queue)
        saved == SaveModel(dk, md, name, ms[name], dumpOk, t)
    IN  [disk |-> saved.disk, md |-> saved.md,
         queue |-> IF dumpOk THEN Tail(queue) ELSE <<>>,
         name |-> name,
         outcome |-> IF saved.raised THEN "raised"
                     ELSE IF dumpOk THEN "saved" ELSE "failed"]

\* One iteration of the loop of cleanup(): save_model in a try; an exception
\* is logged and the loop goes on.
CleanupIteration(dk, md, queue, ms, dumpOk, t) ==
    LET name == Head(queue)
        saved == SaveModel(dk, md, name, ms[name], dumpOk, t)
    IN  [disk |-> saved.disk, md |-> saved.md, queue |-> Tail(queue),
         name |-> name,
         outcome |-> IF saved.raised THEN "raised"
                     ELSE IF dumpOk THEN "saved" ELSE "failed"]

\* A finally block that is entered while initialize() still awaits a worker
\* thread: cleanup() runs on the manager under construction.
Shutdown_DuringInitialize ==
    /\ phase \in {"serving", "initializing"}
    /\ IF manager = "live" \/ phase = "initializing"
       THEN /\ phase' = "cleaning"
            /\ cleanupQueue' = SelectSeq(Required, LAMBDA n : n \in DOMAIN models)
       ELSE /\ phase' = "stopped"
            /\ cleanupQueue' = <<>>
    /\ saveLog' = Empty
    /\ UNCHANGED <<startup, calc>>
    /\ UNCHANGED infra
    /\ last' = Idle
    /\ twin' = Idle
    /\ UNCHANGED <<manager, kafka, models, model_metadata, disk,
                   initQueue, initLog>>

\* The server stops: the finally block of lifespan.  cleanup() runs when a
\* manager was constructed.
Shutdown ==
    /\ phase = "serving"
    /\ IF manager = "live"
       THEN /\ phase' = "cleaning"
            /\ cleanupQueue' = SelectSeq(Required, LAMBDA n : n \in DOMAIN models)
       ELSE /\ phase' = "stopped"
            /\ cleanupQueue' = <<>>
    /\ saveLog' = Empty
    /\ UNCHANGED <<startup, calc>>
    /\ UNCHANGED infra
    /\ last' = Idle
    /\ twin' = Idle
    /\ UNCHANGED <<manager, kafka, models, model_metadata, disk,
                   initQueue, initLog>>

\* One iteration of `for name, model in self.models.items()`.
CleanupStep ==
    /\ phase = "cleaning"
    /\ cleanupQueue # <<>>
    /\ \E dumpOk \in BOOLEAN :
          LET r == CleanupIteration(disk, model_metadata, cleanupQueue, models,
                                    dumpOk, UtcNow)
          IN  /\ disk' = r.disk
              /\ model_metadata' = r.md
              /\ cleanupQueue' = r.queue
              /\ saveLog' = (r.name :> r.outcome) @@ saveLog
    /\ UNCHANGED <<startup, calc>>
    /\ UNCHANGED infra
    /\ last' = Idle
    /\ twin' = Idle
    /\ UNCHANGED <<phase, manager, kafka, models, initQueue, initLog>>

\* cleanup() returned.
CleanupDone ==
    /\ phase = "cleaning"
    /\ cleanupQueue = <<>>
    /\ phase' = "stopped"
    /\ UNCHANGED <<startup, calc>>
    /\ UNCHANGED infra
    /\ last' = Idle
    /\ twin' = Idle
    /\ UNCHANGED <<manager, kafka, models, model_metadata, disk,
                   initQueue, initLog, cleanupQueue, saveLog>>

\* The process is started again on the same storage directory.
Restart ==
    /\ phase \in {"stopped", "exited"}
    /\ phase' = "boot"
    /\ manager' = "none"
    /\ kafka' = "none"
    /\ models' = Empty
    /\ model_metadata' = Empty
    /\ initQueue' = <<>>
    /\ initLog' = Empty
    /\ cleanupQueue' = <<>>
    /\ saveLog' = Empty
    /\ startup' = NotStarted
    /\ UNCHANGED calc
    /\ UNCHANGED infra
    /\ last' = Idle
    /\ twin' = Idle
    /\ UNCHANGED disk

\* The clock advances: every timestamp taken so far is now an earlier one.
Tick ==
    /\ \E n \in DOMAIN model_metadata :
          \E k \in DOMAIN model_metadata[n] : model_metadata[n][k] = UtcNow
    /\ model_metadata' = Earlier(model_metadata)
    /\ UNCHANGED <<startup, calc>>
    /\ UNCHANGED infra
    /\ last' = Idle
    /\ twin' = Idle
    /\ UNCHANGED <<phase, manager, kafka, models, disk, initQueue, initLog,
                   cleanupQueue, saveLog>>

----------------------------------------------------------------------------
(* The registry over the life of the process: startup, calls on the manager,
   GET /health, shutdown, and restarts on the same storage directory. *)

Next ==
    \/ StartupFatal
    \/ StartupWithoutManager
    \/ ConstructManager
    \/ InitializeBegin
    \/ InitializeStep
    \/ InitializeDone
    \/ HealthCheckCall
    \/ GetModelCall
    \/ HealthRequest
    \/ Shutdown
    \/ CleanupStep
    \/ CleanupDone
    \/ Restart
    \/ Tick

Spec == Init /\ [][Next]_vars

(* The worker threads of initialize() and cleanup().  Each iteration of their
   loops hands its file work to asyncio.to_thread and awaits it: the step in
   which the thread starts and the one in which the coroutine resumes are
   separate, and the file of the name is being written in between. *)

\* The threads of `by` that write the file of `name`.
Writers(name, by) == SelectSeq(inflight[name], LAMBDA w : w = by)

\* The coroutine `by` is not awaiting a thread.
NotAwaiting(by) == \A n \in WellKnown : Writers(n, by) = <<>>

RemoveWriter(name, by) ==
    [inflight EXCEPT ![name] = SelectSeq(@, LAMBDA w : w # by)]

\* initialize(): the to_thread calls of one iteration start
\* (_load_model_from_disk, then _train_baseline_model with its save_model).
InitializeThreadStart ==
    /\ phase = "initializing"
    /\ initQueue # <<>>
    /\ NotAwaiting("initialize")
    /\ inflight' = [inflight EXCEPT ![Head(initQueue)] = Append(@, "initialize")]
    /\ last' = Idle
    /\ twin' = Idle
    /\ UNCHANGED <<phase, manager, kafka, models, model_metadata, disk,
                   initQueue, initLog, cleanupQueue, saveLog, startup, calc,
                   consumer, limiter, database>>

\* initialize(): the awaited threads of the iteration have finished.
InitializeThreadEnd ==
    /\ phase = "initializing"
    /\ initQueue # <<>>
    /\ Writers(Head(initQueue), "initialize") # <<>>
    /\ \E loadOk \in BOOLEAN, trainOk \in BOOLEAN, dumpOk \in BOOLEAN :
          LET name == Head(initQueue)
              r == InitializeName(models, model_metadata, disk, name, loadOk,
                                  trainOk, dumpOk, UtcNow)
          IN  /\ models' = r.models
              /\ model_metadata' = r.md
              /\ disk' = r.disk
              /\ initLog' = (name :> InitEvents(disk, name, loadOk, trainOk, dumpOk))
                             @@ initLog
              /\ initQueue' = IF r.raised THEN <<>> ELSE Tail(initQueue)
              /\ phase' = IF r.raised THEN "initfailed" ELSE phase
              /\ inflight' = RemoveWriter(name, "initialize")
    /\ last' = Idle
    /\ twin' = Idle
    /\ UNCHANGED <<manager, kafka, cleanupQueue, saveLog, startup, calc,
                   consumer, limiter, database>>

\* cleanup(): the to_thread call of one iteration starts (save_model).
CleanupThreadStart ==
    /\ phase = "cleaning"
    /\ cleanupQueue # <<>>
    /\ NotAwaiting("cleanup")
    /\ inflight' = [inflight EXCEPT ![Head(cleanupQueue)] = Append(@, "cleanup")]
    /\ last' = Idle
    /\ twin' = Idle
    /\ UNCHANGED <<phase, manager, kafka, models, model_metadata, disk,
                   initQueue, initLog, cleanupQueue, saveLog, startup, calc,
                   consumer, limiter, database>>

\* cleanup(): the awaited thread has finished.
CleanupThreadEnd ==
    /\ phase = "cleaning"
    /\ cleanupQueue # <<>>
    /\ Writers(Head(cleanupQueue), "cleanup") # <<>>
    /\ \E dumpOk \in BOOLEAN :
          LET r == CleanupIteration(disk, model_metadata, cleanupQueue, models,
                                    dumpOk, UtcNow)
          IN  /\ disk' = r.disk
              /\ model_metadata' = r.md
              /\ cleanupQueue' = r.queue
              /\ saveLog' = (r.name :> r.outcome) @@ saveLog
              /\ inflight' = RemoveWriter(r.name, "cleanup")
    /\ last' = Idle
    /\ twin' = Idle
    /\ UNCHANGED <<phase, manager, kafka, models, initQueue, initLog, startup,
                   calc, consumer, limiter, database>>

NextWrites ==
    \/ StartupFatal
    \/ StartupWithoutManager
    \/ ConstructManager
    \/ InitializeBegin
    \/ InitializeThreadStart
    \/ InitializeThreadEnd
    \/ InitializeDone
    \/ HealthCheckCall
    \/ GetModelCall
    \/ HealthRequest
    \/ Shutdown
    \/ CleanupThreadStart
    \/ CleanupThreadEnd
    \/ CleanupDone
    \/ Restart
    \/ Tick

SpecWrites == Init /\ [][NextWrites]_vars

(* app/core/kafka_client.py: consume_events on one topic with one partition.
   The messages have the offsets 1..MaxMessages; `position` is the offset of
   the last message the consumer has been given, `committed` the last offset
   committed for the group, `done` and `failed` the offsets whose callback
   has completed, or has raised at its latest delivery. *)

\* `await consumer.commit()` after the callback returned; skipped when it
\* raised.  commit() without offsets commits the consumed position.
CommitAfter(c, ok) ==
    IF ok THEN [c EXCEPT !.committed = c.position] ELSE c

\* AIOKafkaConsumer(...).start(): the consumer resumes after the committed
\* offset of the group (from the earliest message when there is none).
ConsumeStart ==
    /\ consumer.state = "none"
    /\ consumer' = [consumer EXCEPT !.state = "running",
                                    !.position = consumer.committed]
    /\ UNCHANGED <<phase, manager, kafka, models, model_metadata, disk,
                   initQueue, initLog, cleanupQueue, saveLog, last, twin,
                   startup, calc, inflight, limiter, database>>

\* One iteration of `async for message in consumer`: the callback returns or
\* raises, and the offset is committed after a callback that returned.
ConsumeMessage ==
    /\ consumer.state = "running"
    /\ consumer.position < MaxMessages
    /\ \E ok \in BOOLEAN :
          LET offset == consumer.position + 1
              given == [consumer EXCEPT
                           !.position = offset,
                           !.done = IF ok THEN @ \cup {offset} ELSE @,
                           !.failed = IF ok THEN @ \ {offset} ELSE @ \cup {offset}]
          IN  consumer' = CommitAfter(given, ok)
    /\ UNCHANGED <<phase, manager, kafka, models, model_metadata, disk,
                   initQueue, initLog, cleanupQueue, saveLog, last, twin,
                   startup, calc, inflight, limiter, database>>

\* The loop ends (the client is stopped or the process ends): consumer.stop()
\* in the finally clause.  The committed offset stays with the group.
ConsumeStop ==
    /\ consumer.state = "running"
    /\ consumer' = [consumer EXCEPT !.state = "none"]
    /\ UNCHANGED <<phase, manager, kafka, models, model_metadata, disk,
                   initQueue, initLog, cleanupQueue, saveLog, last, twin,
                   startup, calc, inflight, limiter, database>>

\* The service modules as imported, before the application starts.
InitServices ==
    /\ phase = "boot"
    /\ manager = "none"
    /\ kafka = "none"
    /\ models = Empty
    /\ model_metadata = Empty
    /\ disk = [n \in WellKnown |-> NoFile]
    /\ initQueue = <<>>
    /\ initLog = Empty
    /\ cleanupQueue = <<>>
    /\ saveLog = Empty
    /\ last = Idle
    /\ twin = Idle
    /\ startup = NotStarted
    /\ calc = NoCalc
    /\ inflight = NoWriters
    /\ consumer = NoConsumer
    /\ limiter = NoLimiter
    /\ database = NoDb

NextKafka ==
    \/ ConsumeStart
    \/ ConsumeMessage
    \/ ConsumeStop

SpecKafka == InitServices /\ [][NextKafka]_vars

\* ---------------------------------------------------------------------
\* SecurityMiddleware.dispatch: the in-memory rate limiter
\* ---------------------------------------------------------------------

\* max_requests_per_minute, scaled down from its default of 100.
MaxRequests == 2

\* The most requests that await call_next at one time.
MaxPending == 2

\* The length of a window, in seconds.
Window == 60

\* The time that passes between two requests, in seconds.
Steps == {Window \div 2, Window}

\* The oldest entry that is told apart from older ones.
MaxAge == Window + Window \div 2

\* The rate-limit block with the count compared before it is incremented.
RateLimit_CheckBeforeIncrement(bucket) ==
    LET b0 == IF bucket.present THEN bucket
              ELSE [present |-> TRUE, age |-> 0, count |-> 0]
        reset == b0.age >= Window
        b1 == IF reset THEN [b0 EXCEPT !.age = 0, !.count = 0] ELSE b0
    IN  [bucket |-> [b1 EXCEPT !.count = @ + 1], reset |-> reset,
         limited |-> b1.count > MaxRequests]

\* The rate-limit block of dispatch on the entry of the client: setdefault,
\* the reset of an entry that is 60 seconds old, the increment, the comparison.
RateLimit(bucket) ==
    LET b0 == IF bucket.present THEN bucket
              ELSE [present |-> TRUE, age |-> 0, count |-> 0]
        reset == b0.age >= Window
        b1 == IF reset THEN [b0 EXCEPT !.age = 0, !.count = 0] ELSE b0
        b2 == [b1 EXCEPT !.count = @ + 1]
    IN  [bucket |-> b2, reset |-> reset, limited |-> b2.count > MaxRequests]

\* dispatch up to `await call_next(request)`: there is no await before it, so
\* the event loop runs the block as one step.
SecurityDispatch ==
    /\ \E c \in Clients, tooLarge \in BOOLEAN :
          LET r == RateLimit(limiter.store[c])
              status == IF r.limited THEN 429 ELSE IF tooLarge THEN 413 ELSE 0
              fwd == status = 0
              before == IF r.reset THEN 0 ELSE limiter.forwarded[c]
          IN  /\ r.bucket.count <= MaxRequests + 2
              /\ fwd => limiter.pending < MaxPending
              /\ limiter' =
                   [store |-> [limiter.store EXCEPT ![c] = r.bucket],
                    forwarded |-> [limiter.forwarded EXCEPT
                                      ![c] = IF fwd THEN before + 1 ELSE before],
                    pending |-> IF fwd THEN limiter.pending + 1
                                ELSE limiter.pending,
                    last |-> [client |-> c, status |-> status,
                              count |-> r.bucket.count,
                              arrivedAge |-> limiter.store[c].age,
                              reset |-> r.reset, forwarded |-> fwd]]
    /\ UNCHANGED <<phase, manager, kafka, models, model_metadata, disk,
                   initQueue, initLog, cleanupQueue, saveLog, last, twin,
                   startup, calc, inflight, consumer, database>>

\* call_next returns for one of the requests that await it.
CallNextReturn ==
    /\ limiter.pending > 0
    /\ limiter' = [limiter EXCEPT !.pending = @ - 1]
    /\ UNCHANGED <<phase, manager, kafka, models, model_metadata, disk,
                   initQueue, initLog, cleanupQueue, saveLog, last, twin,
                   startup, calc, inflight, consumer, database>>

\* time.time() advances: every entry grows older.
ClockAdvance ==
    /\ \E d \in Steps :
          limiter' =
            [limiter EXCEPT !.store =
               [c \in Clients |->
                  IF limiter.store[c].present
                  THEN [limiter.store[c] EXCEPT
                           !.age = IF @ + d > MaxAge THEN MaxAge ELSE @ + d]
                  ELSE limiter.store[c]]]
    /\ \E c \in Clients : limiter.store[c].present /\ limiter.store[c].age < MaxAge
    /\ UNCHANGED <<phase, manager, kafka, models, model_metadata, disk,
                   initQueue, initLog, cleanupQueue, saveLog, last, twin,
                   startup, calc, inflight, consumer, database>>

NextLimiter ==
    \/ SecurityDispatch
    \/ CallNextReturn
    \/ ClockAdvance

SpecLimiter == InitServices /\ [][NextLimiter]_vars

\* ---------------------------------------------------------------------
\* app.core.database: init_db and get_db
\* ---------------------------------------------------------------------

\* The number of calls of init_db and get_db that are followed.
MaxCalls == 6

\* init_db() on the module globals; testOk tells whether SELECT 1 succeeds.
InitDb(d, testOk) ==
    IF d.engine # "None"
    THEN [db |-> d, ret |-> "True", raised |-> FALSE]
    ELSE [db |-> [d EXCEPT !.engine = "created",
                           !.async_session_maker = "sessionmaker",
                           !.tested = testOk],
          ret |-> IF testOk THEN "True" ELSE "none",
          raised |-> ~testOk]

\* get_db() up to the yield of the session
GetDb(d, testOk) ==
    LET init == IF d.async_session_maker = "None"
                THEN InitDb(d, testOk)
                ELSE [db |-> d, ret |-> "none", raised |-> FALSE]
    IN  IF init.raised
        THEN [db |-> init.db, ret |-> "none", raised |-> TRUE]
        ELSE [db |-> init.db, ret |-> "session", raised |-> FALSE]

\* The entry of the log for a call and its result.
DbCall(fn, r) ==
    [fn |-> fn, ret |-> r.ret, raised |-> r.raised, tested |-> r.db.tested]

InitDbCall ==
    /\ Len(database.log) < MaxCalls
    /\ \E testOk \in BOOLEAN :
          LET r == InitDb(database, testOk)
          IN  database' = [r.db EXCEPT !.log = Append(@, DbCall("init_db", r))]
    /\ UNCHANGED <<phase, manager, kafka, models, model_metadata, disk,
                   initQueue, initLog, cleanupQueue, saveLog, last, twin,
                   startup, calc, inflight, consumer, limiter>>

GetDbCall ==
    /\ Len(database.log) < MaxCalls
    /\ \E testOk \in BOOLEAN :
          LET r == GetDb(database, testOk)
          IN  database' = [r.db EXCEPT !.log = Append(@, DbCall("get_db", r))]
    /\ UNCHANGED <<phase, manager, kafka, models, model_metadata, disk,
                   initQueue, initLog, cleanupQueue, saveLog, last, twin,
                   startup, calc, inflight, consumer, limiter>>

NextDatabase ==
    \/ InitDbCall
    \/ GetDbCall

SpecDatabase == InitServices /\ [][NextDatabase]_vars

(* The prediction dispatch: one start of the process, then requests to the
   three predict endpoints. *)

NextDispatch ==
    \/ StartupWithoutManager
    \/ ConstructManager
    \/ InitializeBegin
    \/ InitializeStep
    \/ InitializeDone
    \/ NoShowRequest
    \/ RiskRequest
    \/ BatchRequest
    \/ Tick

SpecDispatch == Init /\ [][NextDispatch]_vars

(* The predict handlers against whatever manager is installed on app.state:
   get_model_manager returns the object stored there, and its registry holds
   any objects under any of the well-known names (none, before initialize). *)

\* An object with predict and predict_proba and no predict_batch.
Estimator == [cls |-> "Estimator", is_trained |-> "missing", origin |-> "disk"]

\* The objects a registry may hold and the registries over the required names.
ModelObjects ==
    {NewNoShowPredictor("placeholder"), Train(NewNoShowPredictor("baseline")),
     NewPatientRiskScorer("placeholder"), Deserialize(ForeignFile), Estimator}

Registries == UNION {[S -> ModelObjects] : S \in SUBSET WellKnown}

InitHandlers ==
    /\ phase = "serving"
    /\ manager \in {"none", "live"}
    /\ models \in IF manager = "none" THEN {Empty} ELSE Registries
    /\ model_metadata \in
          UNION {[S -> {[last_used |-> "earlier"]}] : S \in SUBSET DOMAIN models}
    /\ kafka = "none"
    /\ disk = [n \in WellKnown |-> NoFile]
    /\ initQueue = <<>>
    /\ initLog = Empty
    /\ cleanupQueue = <<>>
    /\ saveLog = Empty
    /\ last = Idle
    /\ twin = Idle
    /\ startup = NotStarted
    /\ calc = NoCalc
    /\ inflight = NoWriters
    /\ consumer = NoConsumer
    /\ limiter = NoLimiter
    /\ database = NoDb

NextHandlers ==
    \/ NoShowRequest
    \/ RiskRequest
    \/ BatchRequest
    \/ Tick

SpecHandlers == InitHandlers /\ [][NextHandlers]_vars

----------------------------------------------------------------------------
(* app/core/ml_models.py: the numeric methods of the two model classes.  The
   methods keep no state, so a behaviour makes one call. *)

\* PatientRiskScorer.categorize_risk_levels: the loop over the scores, each
\* category appended in turn.
RECURSIVE CategorizeLoop(_, _)
CategorizeLoop(seq, cats) ==
    IF seq = <<>> THEN cats
    ELSE CategorizeLoop(Tail(seq), Append(cats, CategorizeRiskLevel(Head(seq))))

CategorizeRiskLevels(scores) == CategorizeLoop(scores, <<>>)

\* Scores are kept as integers over the common denominator of the divisors
\* 100, 500, 300 and 8 of the sub-scores.
Unit == 6000

\* min(1.0, x)
Min1(x) == IF x < Unit THEN x ELSE Unit

\* min(1.0, age / 100.0 + cholesterol / 500.0)
CalculateCardiovascularRisk(row) == Min1(60 * row.age + 12 * row.cholesterol)

\* min(1.0, glucose_level / 300.0)
CalculateDiabetesRisk(row) == Min1(20 * row.glucose_level)

\* min(1.0, previous_admissions / 8.0)
CalculateReadmissionRisk(row) == Min1(750 * row.previous_admissions)

\* (cv + di + rd) / 3.0, as the numerator over 3 * Unit
CalculateCompositeRisk(row) ==
    CalculateCardiovascularRisk(row) + CalculateDiabetesRisk(row)
        + CalculateReadmissionRisk(row)

\* The values of the four fields of a row, in the units of the field.
FieldSamples == {-50, 0, 40, 9000}

Rows == [age : FieldSamples, cholesterol : FieldSamples,
         glucose_level : FieldSamples, previous_admissions : FieldSamples]

\* The values of a feature record, by their Python type.
FeatureValues ==
    {[type |-> "int", val |-> 0], [type |-> "int", val |-> 1],
     [type |-> "float", val |-> 1],
     [type |-> "bool", val |-> 0], [type |-> "bool", val |-> 1],
     [type |-> "str", val |-> 0], [type |-> "NoneType", val |-> 0],
     [type |-> "dict", val |-> 0]}

\* The feature records of at most MaxFields fields, by their values.
FeatureRecords == UNION {[1..n -> FeatureValues] : n \in 0..MaxFields}

\* isinstance(v, (int, float)): bool is a subclass of int.
IsIntOrFloatInstance(v) == v.type \in {"int", "float", "bool"}

RECURSIVE SumVals(_)
SumVals(vals) == IF vals = <<>> THEN 0 ELSE Head(vals).val + SumVals(Tail(vals))

\* 1 / (1 + exp(-(total / n - 0.5))) in thousandths, for 0 <= total <= n:
\* exp(-x) with x = a / b is taken to the fourth order of its series.
Logistic(total, n) ==
    LET a == 2 * total - n
        b == 2 * n
        den == 24 * b * b * b * b
        num == den - 24 * a * b * b * b + 12 * a * a * b * b
                   - 4 * a * a * a * b + a * a * a * a
    IN  (1000 * den) \div (den + num)

\* The fixed default of predict_proba_single, in thousandths.
DefaultProbability == 100

\* NoShowPredictor.predict_proba_single
PredictProbaSingle(x) ==
    LET vals == SelectSeq(x, IsIntOrFloatInstance)
    IN  IF vals = <<>> THEN DefaultProbability
        ELSE Logistic(SumVals(vals), Len(vals))

\* The lists of scores given to categorize_risk_levels.
ScoreSamples == {399, 400, 699, 700, 849, 850}

ScoreLists == UNION {[1..n -> ScoreSamples] : n \in 0..MaxScores}

\* A registry holding a trained no-show predictor.
TrainedRegistry ==
    "no_show_predictor" :> Train(NewNoShowPredictor("baseline"))

\* predict_no_show on a model that returns the probability p
NoShowDispatchCalc ==
    /\ calc = NoCalc
    /\ \E p \in 0..MaxProb :
          calc' = [fn |-> "predict_no_show", p |-> p,
                   resp |-> PredictNoShow("live", TrainedRegistry, Empty, UtcNow,
                                          Returns, p).resp]
    /\ UNCHANGED <<phase, manager, kafka, models, model_metadata, disk,
                   initQueue, initLog, cleanupQueue, saveLog, last, twin,
                   startup>>
    /\ UNCHANGED infra

\* PatientRiskScorer().categorize_risk_levels(scores)
CategorizeCalc ==
    /\ calc = NoCalc
    /\ \E scores \in ScoreLists :
          calc' = [fn |-> "categorize_risk_levels", scores |-> scores,
                   cats |-> CategorizeRiskLevels(scores)]
    /\ UNCHANGED <<phase, manager, kafka, models, model_metadata, disk,
                   initQueue, initLog, cleanupQueue, saveLog, last, twin,
                   startup>>
    /\ UNCHANGED infra

\* PatientRiskScorer().calculate_composite_risk on one row
CompositeCalc ==
    /\ calc = NoCalc
    /\ \E row \in Rows :
          calc' = [fn |-> "calculate_composite_risk", row |-> row,
                   cv |-> CalculateCardiovascularRisk(row),
                   di |-> CalculateDiabetesRisk(row),
                   rd |-> CalculateReadmissionRisk(row),
                   composite3 |-> CalculateCompositeRisk(row)]
    /\ UNCHANGED <<phase, manager, kafka, models, model_metadata, disk,
                   initQueue, initLog, cleanupQueue, saveLog, last, twin,
                   startup>>
    /\ UNCHANGED infra

\* NoShowPredictor().predict_proba_single(x)
ProbaSingleCalc ==
    /\ calc = NoCalc
    /\ \E x \in FeatureRecords :
          calc' = [fn |-> "predict_proba_single", x |-> x,
                   ret |-> PredictProbaSingle(x)]
    /\ UNCHANGED <<phase, manager, kafka, models, model_metadata, disk,
                   initQueue, initLog, cleanupQueue, saveLog, last, twin,
                   startup>>
    /\ UNCHANGED infra

\* The probabilities predict_proba gives the rows of a batch: the thresholds
\* and the values just below them.
ProbBoundaries == {399, 400, 499, 500, 699, 700}

ProbLists == UNION {[1..n -> ProbBoundaries] : n \in 0..MaxScores}

\* NoShowPredictor.predict_batch and predict on the same batch
NoShowBatchCalc ==
    /\ calc = NoCalc
    /\ \E ps \in ProbLists :
          calc' = [fn |-> "predict_batch", ps |-> ps,
                   raw |-> NoShowPredictBatch(ps),
                   predict |-> NoShowPredict(ps)]
    /\ UNCHANGED <<phase, manager, kafka, models, model_metadata, disk,
                   initQueue, initLog, cleanupQueue, saveLog, last, twin,
                   startup>>
    /\ UNCHANGED infra

\* ---------------------------------------------------------------------
\* Settings.ALLOWED_HOSTS and the CORS configuration of main.py
\* ---------------------------------------------------------------------

\* The longest ALLOWED_HOSTS list that is configured.
MaxHosts == 2

\* An entry of ALLOWED_HOSTS: its scheme prefix ("" when it has none) and
\* the rest of the string.
Wildcard == [scheme |-> "", rest |-> "*"]

HostSamples ==
    {Wildcard,
     [scheme |-> "", rest |-> "localhost:3000"],
     [scheme |-> "http://", rest |-> "localhost:3000"],
     [scheme |-> "https://", rest |-> "app.example"]}

HostLists == UNION {[1..n -> HostSamples] : n \in 0..MaxHosts}

Environments == {"development", "staging", "production"}

\* any(h == "*" for h in v)
ContainsWildcard(v) == \E i \in 1..Len(v) : v[i] = Wildcard

\* Settings.validate_allowed_hosts: the list, or ValueError
ValidateAllowedHosts(env, v) ==
    IF env \in {"staging", "production"} /\ ContainsWildcard(v)
    THEN "ValueError"
    ELSE "ok"

\* One entry of the else branch of the CORS block.
NormalizeOrigin(o) ==
    IF o = Wildcard THEN o
    ELSE IF o.scheme \in {"http://", "https://"} THEN o
    ELSE [o EXCEPT !.scheme = "http://"]

\* The arguments CORSMiddleware is added with.
CorsConfiguration(hosts) ==
    IF Len(hosts) = 1 /\ hosts[1] = Wildcard
    THEN [allow_origins |-> hosts, allow_credentials |-> FALSE]
    ELSE [allow_origins |-> [i \in 1..Len(hosts) |-> NormalizeOrigin(hosts[i])],
          allow_credentials |-> TRUE]

\* import of main.py under one environment and one ALLOWED_HOSTS list
CorsCalc ==
    /\ calc = NoCalc
    /\ \E env \in Environments, hosts \in HostLists :
          calc' = [fn |-> "cors", env |-> env, hosts |-> hosts,
                   settings |-> ValidateAllowedHosts(env, hosts),
                   cors |-> CorsConfiguration(hosts)]
    /\ UNCHANGED <<phase, manager, kafka, models, model_metadata, disk,
                   initQueue, initLog, cleanupQueue, saveLog, last, twin,
                   startup>>
    /\ UNCHANGED infra

\* ---------------------------------------------------------------------
\* predict_no_show: the feature dict handed to predict_proba_single
\* ---------------------------------------------------------------------

NoneValue == [type |-> "NoneType", val |-> 0]

IntValue(i) == [type |-> "int", val |-> i]

\* AppointmentFeatures bodies: patient_age, previous_no_shows (default 0),
\* appointment_lead_time, day_of_week, is_weekend, referral_source, extra.
AppointmentSamples ==
    {<<age, shows, NoneValue, [type |-> "str", val |-> 0], weekend,
       NoneValue, NoneValue>> :
        age \in {NoneValue, IntValue(0), IntValue(1)},
        shows \in {IntValue(0), IntValue(1)},
        weekend \in {NoneValue, [type |-> "bool", val |-> 0],
                     [type |-> "bool", val |-> 1]}}

\* patient_id: int and appointment_id: Optional[int] of the payload.
PatientIds == {IntValue(0), IntValue(1)}

AppointmentIds == {NoneValue, IntValue(1)}

\* `if v:` for None and for an int
Truthy(v) == v.type # "NoneType" /\ v.val # 0

\* data = payload.appointment_data.dict() and the two setdefault calls; the
\* keys patient_id and appointment_id are no fields of AppointmentFeatures.
EnrichedData(appt, pid, aid) ==
    appt \o (IF Truthy(pid) THEN <<pid>> ELSE <<>>)
         \o (IF Truthy(aid) THEN <<aid>> ELSE <<>>)

\* The response predict_no_show gives a payload, on the trained predictor.
NoShowResponse(appt, pid, aid) ==
    PredictNoShow("live", TrainedRegistry, Empty, UtcNow, Returns,
                  PredictProbaSingle(EnrichedData(appt, pid, aid))).resp

\* Two predict_no_show requests with the same appointment_data
NoShowPairCalc ==
    /\ calc = NoCalc
    /\ \E appt \in AppointmentSamples, p1 \in PatientIds, p2 \in PatientIds,
          a1 \in AppointmentIds, a2 \in AppointmentIds :
          calc' = [fn |-> "predict_no_show_pair", appointment_data |-> appt,
                   first |-> [patient_id |-> p1, appointment_id |-> a1,
                              resp |-> NoShowResponse(appt, p1, a1)],
                   second |-> [patient_id |-> p2, appointment_id |-> a2,
                               resp |-> NoShowResponse(appt, p2, a2)]]
    /\ UNCHANGED <<phase, manager, kafka, models, model_metadata, disk,
                   initQueue, initLog, cleanupQueue, saveLog, last, twin,
                   startup>>
    /\ UNCHANGED infra

InitScoring ==
    /\ phase = "boot"
    /\ manager = "none"
    /\ kafka = "none"
    /\ models = Empty
    /\ model_metadata = Empty
    /\ disk = [n \in WellKnown |-> NoFile]
    /\ initQueue = <<>>
    /\ initLog = Empty
    /\ cleanupQueue = <<>>
    /\ saveLog = Empty
    /\ last = Idle
    /\ twin = Idle
    /\ startup = NotStarted
    /\ calc = NoCalc
    /\ inflight = NoWriters
    /\ consumer = NoConsumer
    /\ limiter = NoLimiter
    /\ database = NoDb

NextScoring ==
    \/ NoShowDispatchCalc
    \/ CategorizeCalc
    \/ CompositeCalc
    \/ ProbaSingleCalc
    \/ NoShowBatchCalc
    \/ CorsCalc
    \/ NoShowPairCalc

SpecScoring == InitScoring /\ [][NextScoring]_vars

----------------------------------------------------------------------------
(* Claims *)

\* Both required names are in the mapping and each has its trained flag true.
BothRequiredTrained(ms) ==
    \A n \in WellKnown : n \in DOMAIN ms /\ ms[n].is_trained = "true"


\* C1: ModelManager.health_check returns healthy if and only if both required
\* names are present in the model mapping and each has its trained flag true;
\* otherwise it returns unhealthy, without raising, whatever the state of the
\* other model.  Stated of every call made in a run and of every registry over
\* the two names.
C1_HealthCheckIffBothTrained ==
    /\ last.op = "health_check" =>
          /\ last.raised = "none"
          /\ last.healthy <=> BothRequiredTrained(models)
    /\ \A ms \in Registries : HealthCheck(ms) <=> BothRequiredTrained(ms)

\* C1 witness: a call that answers unhealthy because no_show_predictor is
\* present but untrained while risk_scorer is present and trained.
C1_Witness ==
    /\ last.op = "health_check"
    /\ ~last.healthy
    /\ DOMAIN models = WellKnown
    /\ ~IsTrained(models["no_show_predictor"])
    /\ IsTrained(models["risk_scorer"])

\* C2 (as claimed): GET /health answers with top-level status "healthy" only
\* when the manager is present and both required models are present and
\* trained.
C2_TopLevelHealthyOnlyWithModels ==
    (last.op = "GET /health" /\ last.top = "healthy") =>
        (manager = "live" /\ BothRequiredTrained(models))

\* C2 (amended): in a GET /health answer the services.models entry is "healthy"
\* if and only if the manager is present and both required models are present
\* and trained; the top-level status is "healthy" in every answer that is not
\* the 503 of a failed Redis ping.
C2_ModelsEntryHealthyIffModels ==
    last.op = "GET /health" =>
        IF last.status = 200
        THEN /\ last.top = "healthy"
             /\ last.svcModels \in {"healthy", "unhealthy"}
             /\ last.svcModels = "healthy" <=>
                    (manager = "live" /\ BothRequiredTrained(models))
        ELSE last.status = 503 /\ last.top = "none"

\* C2 witness: an answer with top-level "healthy" and services.models
\* "unhealthy", the manager being absent.
C2_Witness ==
    /\ last.op = "GET /health"
    /\ last.top = "healthy"
    /\ last.svcModels = "unhealthy"
    /\ manager = "none"

\* C3 (as claimed, for the states after initialize): once initialize has
\* completed, every model name present in the model mapping has a metadata
\* entry.
C3_MetadataForEveryModel ==
    phase \in {"serving", "cleaning", "stopped"} =>
        \A n \in DOMAIN models : n \in DOMAIN model_metadata

\* C4: a step that calls get_model(name).  For a name in the registry it
\* returns the registered instance without raising, stamps that name's
\* last_used with the current time and changes nothing else, also when the name
\* had no metadata entry; for an absent name it raises KeyError and leaves the
\* model mapping and the metadata unchanged.
C4_GetModelStep ==
    last'.op = "get_model" =>
        LET name == last'.name
        IN  /\ models' = models
            /\ IF name \in DOMAIN models
               THEN /\ last'.raised = "none"
                    /\ last'.ret = models[name]
                    /\ HasKey(model_metadata', name, "last_used")
                    /\ model_metadata'[name]["last_used"] = UtcNow
                    /\ DOMAIN model_metadata' = DOMAIN model_metadata \cup {name}
                    /\ \A n \in DOMAIN model_metadata \ {name} :
                          model_metadata'[n] = model_metadata[n]
                    /\ name \in DOMAIN model_metadata =>
                          /\ DOMAIN model_metadata'[name] =
                                DOMAIN model_metadata[name] \cup {"last_used"}
                          /\ \A k \in DOMAIN model_metadata[name] \ {"last_used"} :
                                model_metadata'[name][k] = model_metadata[name][k]
               ELSE /\ last'.raised = "KeyError"
                    /\ model_metadata' = model_metadata

C4_GetModel == [][C4_GetModelStep]_vars

\* C4 witness: the service is serving and get_model has returned a model whose
\* name had no metadata entry: the entry now holds the last_used stamp alone.
C4_Witness ==
    /\ phase = "serving"
    /\ last.op = "get_model"
    /\ last.raised = "none"
    /\ last.name \in DOMAIN models
    /\ last.ret = models[last.name]
    /\ DOMAIN model_metadata[last.name] = {"last_used"}

\* The loading of a name failed: no file, or a file that did not load.
LoadFailed(n) == initLog[n].load \in {"absent", "error"}

InitializeCompleted == phase = "serving" /\ manager = "live"

\* C5: initialize never raises, and when it has completed it has processed
\* both well-known names: whatever happened to the other name, a name whose
\* file loaded holds the loaded object and a name whose baseline training ran
\* holds the baseline model.
C5_InitializeNeverAborts ==
    /\ phase # "initfailed"
    /\ InitializeCompleted =>
          /\ DOMAIN initLog = WellKnown
          /\ \A n \in WellKnown :
                /\ initLog[n].load = "ok" => models[n].origin = "disk"
                /\ initLog[n].train = "ran" => models[n].origin = "baseline"

\* C5 witness: loading and training failed for the name processed first, and
\* the second name was baseline-trained all the same.
C5_Witness ==
    /\ InitializeCompleted
    /\ LoadFailed("no_show_predictor")
    /\ initLog["no_show_predictor"].train = "raised"
    /\ initLog["risk_scorer"].train = "ran"
    /\ models["risk_scorer"].origin = "baseline"

\* C6 (as claimed): after an initialize in which the file of a required model
\* failed to load and its baseline training raised, health_check returns
\* unhealthy.
C6_UnhealthyAfterFailedModel ==
    (InitializeCompleted /\ last.op = "health_check"
        /\ \E n \in WellKnown :
              initLog[n].load = "error" /\ initLog[n].train = "raised")
    => ~last.healthy

\* C6 (amended): after an initialize in which loading and baseline training
\* failed for no_show_predictor, health_check returns unhealthy; when they
\* failed for risk_scorer the registry keeps the PatientRiskScorer placeholder,
\* whose constructor sets its trained flag, and health_check returns healthy
\* exactly when no_show_predictor is trained.
C6_UnhealthyAfterFailedNoShow ==
    (InitializeCompleted /\ last.op = "health_check") =>
        /\ (LoadFailed("no_show_predictor")
                /\ initLog["no_show_predictor"].train = "raised")
              => ~last.healthy
        /\ (LoadFailed("risk_scorer") /\ initLog["risk_scorer"].train = "raised")
              => /\ models["risk_scorer"] = NewPatientRiskScorer("placeholder")
                 /\ last.healthy <=> IsTrained(models["no_show_predictor"])

\* C6 witness: the file of no_show_predictor failed to load, its training
\* raised, and health_check has answered unhealthy.
C6_Witness ==
    /\ InitializeCompleted
    /\ last.op = "health_check"
    /\ initLog["no_show_predictor"].load = "error"
    /\ initLog["no_show_predictor"].train = "raised"
    /\ ~last.healthy

\* The baseline model and the placeholder of a well-known name.
BaselineOf(n) ==
    IF n = "no_show_predictor"
    THEN [cls |-> "NoShowPredictor", is_trained |-> "true", origin |-> "baseline"]
    ELSE [cls |-> "PatientRiskScorer", is_trained |-> "true", origin |-> "baseline"]

PlaceholderOf(n) ==
    IF n = "no_show_predictor"
    THEN [cls |-> "NoShowPredictor", is_trained |-> "false", origin |-> "placeholder"]
    ELSE [cls |-> "PatientRiskScorer", is_trained |-> "true", origin |-> "placeholder"]

LoadedFrom(n, src) ==
    HasKey(model_metadata, n, "loaded_from") /\ model_metadata[n]["loaded_from"] = src

\* C7 (as claimed): when initialize has completed, a name whose file existed
\* and deserialized holds the deserialized object with loaded_from "disk";
\* every other name holds a new baseline-trained model that is in the name's
\* file, with loaded_from "baseline".
C7_LoadedOrBaselinePersisted ==
    InitializeCompleted =>
        \A n \in WellKnown :
            IF initLog[n].load = "ok"
            THEN models[n] = Deserialize(disk[n]) /\ LoadedFrom(n, "disk")
            ELSE /\ models[n] = BaselineOf(n)
                 /\ disk[n] = Serialize(models[n])
                 /\ LoadedFrom(n, "baseline")

\* C7 (amended): when initialize has completed, a name whose file existed and
\* deserialized holds the deserialized object with loaded_from "disk"; a name
\* whose baseline training ran holds a new baseline-trained model with
\* loaded_from "baseline", and that model is in the name's file if the dump
\* succeeded (a failed dump is logged only); a name whose baseline training
\* raised keeps its placeholder and has no loaded_from.
C7_LoadedOrBaselineBestEffort ==
    InitializeCompleted =>
        \A n \in WellKnown :
            /\ initLog[n].load = "ok" =>
                  models[n] = Deserialize(disk[n]) /\ LoadedFrom(n, "disk")
            /\ initLog[n].train = "ran" =>
                  /\ models[n] = BaselineOf(n)
                  /\ LoadedFrom(n, "baseline")
                  /\ initLog[n].dump = "written" => disk[n] = Serialize(models[n])
            /\ initLog[n].train = "raised" =>
                  /\ models[n] = PlaceholderOf(n)
                  /\ ~HasKey(model_metadata, n, "loaded_from")

\* C7 witness: a name had no file, its baseline was trained and tagged, and
\* the dump failed: the file is still missing.
C7_Witness ==
    /\ InitializeCompleted
    /\ \E n \in WellKnown :
          /\ initLog[n].load = "absent"
          /\ initLog[n].dump = "failed"
          /\ models[n] = BaselineOf(n)
          /\ LoadedFrom(n, "baseline")
          /\ disk[n] = NoFile

Range(q) == {q[i] : i \in DOMAIN q}

\* C8: cleanup calls save_model for every model the registry holds: no call
\* raises, a failed dump does not end the loop, and a dump that succeeded has
\* put the model in its file.
C8_CleanupSavesEveryModel ==
    /\ \A n \in DOMAIN saveLog : saveLog[n] \in {"saved", "failed"}
    /\ phase = "cleaning" =>
          /\ DOMAIN saveLog \cup Range(cleanupQueue) = DOMAIN models
          /\ DOMAIN saveLog \cap Range(cleanupQueue) = {}
    /\ (phase = "stopped" /\ manager = "live") =>
          /\ DOMAIN saveLog = DOMAIN models
          /\ \A n \in DOMAIN models :
                saveLog[n] = "saved" => disk[n] = Serialize(models[n])

\* C8 witness: cleanup has returned; the dump of the first model failed and
\* the second model was saved all the same.
C8_Witness ==
    /\ phase = "stopped"
    /\ manager = "live"
    /\ saveLog["no_show_predictor"] = "failed"
    /\ saveLog["risk_scorer"] = "saved"
    /\ disk["risk_scorer"] = Serialize(models["risk_scorer"])

PredictOps == {"predict_no_show", "predict_risk", "predict_batch"}

\* C9: two runs of a predict request that differ only in the text of the
\* exception raised during prediction (same class) get the same status and the
\* same message, and no exception text is in either message.
C9_ExceptionTextNeverInResponse ==
    last.op \in PredictOps =>
        /\ twin.op = last.op
        /\ twin.excCls = last.excCls
        /\ twin.status = last.status
        /\ twin.message = last.message
        /\ last.message \notin ExcTexts
        /\ twin.message \notin ExcTexts

\* C9 witness: the two runs of a batch request raised RuntimeError with
\* different texts and both were answered 500.
C9_Witness ==
    /\ last.op = "predict_batch"
    /\ last.excCls = "RuntimeError"
    /\ twin.excCls = "RuntimeError"
    /\ last.excText \in ExcTexts
    /\ twin.excText \in ExcTexts
    /\ last.excText # twin.excText
    /\ last.status = 500
    /\ twin.status = 500

\* C10: when the prediction call of the resolved model raises ValueError or
\* TypeError, each of the three predict endpoints answers 400 with the message
\* "Invalid input".
C10_ValueOrTypeErrorIs400 ==
    (last.op \in PredictOps /\ last.excCls \in {"ValueError", "TypeError"}) =>
        (last.status = 400 /\ last.message = "Invalid input")

\* C10 witness: the no-show endpoint has answered 400 "Invalid input" to a
\* TypeError of the model.
C10_Witness ==
    /\ last.op = "predict_no_show"
    /\ last.excCls = "TypeError"
    /\ last.status = 400
    /\ last.message = "Invalid input"

\* C11: when the prediction call of the resolved model raises an exception
\* that is neither ValueError nor TypeError (a KeyError of the model or a
\* missing method included), each of the three predict endpoints answers 500
\* with the message "Prediction failed".
C11_OtherExceptionIs500 ==
    (/\ last.op \in PredictOps
     /\ last.excCls \notin {"none", "ValueError", "TypeError"}) =>
        (last.status = 500 /\ last.message = "Prediction failed")

\* C11 witness: the risk-score endpoint has answered 500 "Prediction failed"
\* to a KeyError raised inside the model.
C11_Witness ==
    /\ last.op = "predict_risk"
    /\ last.excCls = "KeyError"
    /\ last.status = 500
    /\ last.message = "Prediction failed"

\* The name a predict handler passes to get_model.
ResolvedName(resp) ==
    CASE resp.op = "predict_no_show" -> "no_show_predictor"
      [] resp.op = "predict_risk" -> "risk_scorer"
      [] OTHER -> resp.name

\* A predict request with a valid body is handled while a manager is installed
\* whose registry lacks the name the handler resolves.
C12_AbsentName ==
    /\ last'.op \in PredictOps
    /\ last'.valid = "ok"
    /\ manager # "none"
    /\ ResolvedName(last') \notin DOMAIN models

C12_NotFoundStep ==
    C12_AbsentName =>
        /\ last'.status = 404
        /\ last'.message = "Model not found"
        /\ last'.called = {}
        /\ models' = models
        /\ model_metadata' = model_metadata

\* C12: for each of the three predict operations, when the name to resolve is
\* absent from the registry the answer is 404 "Model not found", no model
\* method is invoked, and models and metadata are left as they were.
C12_AbsentNameIsNotFound == [][C12_NotFoundStep]_vars

\* C12 witness: the no-show endpoint has answered 404 on a registry that holds
\* risk_scorer only, and there is no metadata entry for the absent name.
C12_Witness ==
    /\ manager = "live"
    /\ DOMAIN models = {"risk_scorer"}
    /\ last.op = "predict_no_show"
    /\ last.status = 404
    /\ last.called = {}
    /\ "no_show_predictor" \notin DOMAIN model_metadata

\* C13: when the startup skipped the model manager or failed to initialize
\* it, no manager is installed and every predict request with a well-formed
\* body is answered 503, with no model resolved and no method called.
C13_NoManagerIs503 ==
    (phase = "serving" /\ startup.manager \in {"skipped", "failed"}) =>
        /\ manager = "none"
        /\ (last.op \in PredictOps /\ last.valid = "ok") =>
               /\ last.status = 503
               /\ last.message = "Model manager not available"
               /\ last.called = {}
               /\ model_metadata = Empty

\* C13 witness: the model manager failed at startup and a batch request for a
\* well-known name has been answered 503.
C13_Witness ==
    /\ startup.manager = "failed"
    /\ last.op = "predict_batch"
    /\ last.valid = "ok"
    /\ last.name = "no_show_predictor"
    /\ last.status = 503

\* The process has started serving (and may since have shut down).
Started == phase \in {"serving", "cleaning", "stopped"}

\* C14: a failure of the model manager or of the Kafka client at startup
\* leaves that subsystem unavailable (None) in a process that started
\* serving; a failure of the database initialization or of the Redis ping
\* ends the process, which never serves.
C14_StartupFailures ==
    /\ startup.manager = "failed" => (manager = "none" /\ Started)
    /\ startup.kafka = "failed" => (kafka = "none" /\ Started)
    /\ (startup.db = "failed" \/ startup.redis = "failed") =>
           (phase = "exited" /\ manager = "none" /\ kafka = "none")
    /\ Started => (startup.db = "ok" /\ startup.redis = "ok")

\* C14 witness: both the model manager and the Kafka client failed at startup
\* and the service is serving.
C14_Witness ==
    /\ startup.manager = "failed"
    /\ startup.kafka = "failed"
    /\ phase = "serving"
    /\ manager = "none"
    /\ kafka = "none"

\* C14 witness of the fatal case: the Redis ping failed and the process ended.
C14_WitnessFatal ==
    /\ startup.redis = "failed"
    /\ phase = "exited"

\* C15: in the single-record no-show dispatch, for a probability p (in
\* thousandths) the label is 1 iff p >= 0.5 and the risk bucket is HIGH iff
\* p >= 0.7, MEDIUM iff 0.4 <= p < 0.7, LOW iff p < 0.4, and never CRITICAL.
C15_NoShowLabelAndBucket ==
    calc.fn = "predict_no_show" =>
        /\ calc.resp.status = 200
        /\ calc.resp.probability = calc.p
        /\ calc.resp.prediction = 1 <=> calc.p >= 500
        /\ calc.resp.prediction = 0 <=> calc.p < 500
        /\ calc.resp.risk = "HIGH" <=> calc.p >= 700
        /\ calc.resp.risk = "MEDIUM" <=> (calc.p >= 400 /\ calc.p < 700)
        /\ calc.resp.risk = "LOW" <=> calc.p < 400
        /\ calc.resp.risk # "CRITICAL"

\* C15 witness: the dispatch has answered HIGH with label 1 for p = 0.7.
C15_Witness ==
    /\ calc.fn = "predict_no_show"
    /\ calc.p = 700
    /\ calc.resp.risk = "HIGH"
    /\ calc.resp.prediction = 1

\* C15 witness at the lower boundaries: MEDIUM with label 0 for p = 0.4.
C15_WitnessMedium ==
    /\ calc.fn = "predict_no_show"
    /\ calc.p = 400
    /\ calc.resp.risk = "MEDIUM"
    /\ calc.resp.prediction = 0

\* The category the four-level scale gives a score in thousandths.
FourLevel(sc) ==
    IF sc >= 850 THEN "CRITICAL"
    ELSE IF sc >= 700 THEN "HIGH"
    ELSE IF sc >= 400 THEN "MEDIUM" ELSE "LOW"

\* C16: categorize_risk_levels returns a list of the length of its input whose
\* i-th element is CRITICAL, HIGH, MEDIUM or LOW by the thresholds 0.85, 0.7
\* and 0.4 applied to the i-th score; a score of 0.85 or more is CRITICAL here
\* while the scale of the no-show path gives it HIGH.
C16_CategorizeRiskLevels ==
    calc.fn = "categorize_risk_levels" =>
        /\ Len(calc.cats) = Len(calc.scores)
        /\ \A i \in 1..Len(calc.scores) :
              /\ calc.cats[i] = FourLevel(calc.scores[i])
              /\ calc.scores[i] >= 850 =>
                     (calc.cats[i] = "CRITICAL" /\ RiskBucket(calc.scores[i]) = "HIGH")

\* C16 witness: the scores 0.85 and 0.399 were categorized CRITICAL and LOW,
\* in that order.
C16_Witness ==
    /\ calc.fn = "categorize_risk_levels"
    /\ calc.scores = <<850, 399>>
    /\ calc.cats = <<"CRITICAL", "LOW">>

\* C17: for every row, each of the three sub-scores lies in [0, 1] and so does
\* the composite score, their mean.
C17_ScoresInUnitInterval ==
    calc.fn = "calculate_composite_risk" =>
        /\ calc.cv >= 0 /\ calc.cv <= Unit
        /\ calc.di >= 0 /\ calc.di <= Unit
        /\ calc.rd >= 0 /\ calc.rd <= Unit
        /\ calc.composite3 >= 0 /\ calc.composite3 <= 3 * Unit

\* What holds of the scores: none exceeds 1, and none is negative when no
\* field of the row is.
C17_ScoresAtMostOne ==
    calc.fn = "calculate_composite_risk" =>
        /\ calc.cv <= Unit /\ calc.di <= Unit /\ calc.rd <= Unit
        /\ calc.composite3 <= 3 * Unit
        /\ (/\ calc.row.age >= 0 /\ calc.row.cholesterol >= 0
            /\ calc.row.glucose_level >= 0
            /\ calc.row.previous_admissions >= 0) =>
               (/\ calc.cv >= 0 /\ calc.di >= 0 /\ calc.rd >= 0
                /\ calc.composite3 >= 0)

\* A feature record with no numeric field: only strings, booleans, nulls and
\* nested data.
NoNumericFields(x) ==
    \A i \in 1..Len(x) : x[i].type \in {"str", "bool", "NoneType", "dict"}

\* C18: for a feature record with no numeric fields predict_proba_single
\* returns the fixed default 0.1.
C18_DefaultWithoutNumericFields ==
    (calc.fn = "predict_proba_single" /\ NoNumericFields(calc.x)) =>
        calc.ret = 100

\* What holds of predict_proba_single: the default is returned exactly when
\* no value of the record is an instance of int or float, booleans counted
\* as int.
C18_DefaultWithoutIntOrFloatInstances ==
    calc.fn = "predict_proba_single" =>
        (calc.ret = 100 <=>
            \A i \in 1..Len(calc.x) :
                calc.x[i].type \in {"str", "NoneType", "dict"})

\* A batch request with a valid body has reached the prediction call of a
\* model the registry holds.
C19_Dispatched ==
    /\ last.op = "predict_batch"
    /\ last.valid = "ok"
    /\ manager = "live"
    /\ last.name \in DOMAIN models

\* C19: batch dispatch calls the native batch method, and nothing else,
\* whenever the resolved model has one, and answers with one prediction per
\* row in the order of the rows, with probabilities, risk buckets and
\* explanations; a model without it is asked predict, and predict_proba if it
\* has it, and the answer has no risk buckets and no explanations.
C19_NativeBatchPreferred ==
    C19_Dispatched =>
        IF HasAttr(models[last.name], "predict_batch")
        THEN /\ last.called \subseteq {"predict_batch"}
             /\ last.status = 200 =>
                   /\ last.native
                   /\ last.called = {"predict_batch"}
                   /\ Len(last.predictions) = Len(last.rows)
                   /\ \A i \in 1..Len(last.rows) :
                         /\ last.predictions[i] = IF last.rows[i] >= 500 THEN 1 ELSE 0
                         /\ last.probabilities[i] = last.rows[i]
                   /\ last.hasProbabilities /\ last.hasRisks /\ last.hasExplanations
                   /\ Len(last.probabilities) = Len(last.rows)
                   /\ Len(last.risks) = Len(last.rows)
                   /\ Len(last.explanations) = Len(last.rows)
        ELSE /\ "predict_batch" \notin last.called
             /\ ~last.native
             /\ last.status = 200 =>
                   /\ "predict" \in last.called
                   /\ "predict_proba" \in last.called
                         <=> HasAttr(models[last.name], "predict_proba")
                   /\ last.hasProbabilities
                         <=> HasAttr(models[last.name], "predict_proba")
                   /\ Len(last.predictions) = Len(last.rows)
                   /\ ~last.hasRisks /\ last.risks = <<>>
                   /\ ~last.hasExplanations /\ last.explanations = <<>>

\* C19 witness: a model with predict and predict_proba and no native batch
\* method has answered a batch of two rows with predictions and probabilities
\* only.
C19_Witness ==
    /\ C19_Dispatched
    /\ models[last.name].cls = "Estimator"
    /\ last.status = 200
    /\ last.called = {"predict", "predict_proba"}
    /\ last.rows = <<700, 399>>
    /\ last.predictions = <<1, 0>>
    /\ ~last.hasRisks

\* C19 witness of the native path: the no-show predictor has answered a batch
\* of two rows through predict_batch, in the order of the rows.
C19_WitnessNative ==
    /\ C19_Dispatched
    /\ models[last.name].cls = "NoShowPredictor"
    /\ last.status = 200
    /\ last.called = {"predict_batch"}
    /\ last.rows = <<700, 399>>
    /\ last.predictions = <<1, 0>>
    /\ last.risks = <<"HIGH", "LOW">>

\* A batch request whose body lacks data or model_name is handled.
C20_InvalidBody ==
    /\ last'.op = "predict_batch"
    /\ last'.valid \in {"no_data", "no_model_name"}

C20_RejectedStep ==
    C20_InvalidBody =>
        /\ last'.status = 422
        /\ last'.called = {}
        /\ last'.ret = NoModel
        /\ model_metadata' = model_metadata
        /\ models' = models

\* C20: a POST /predict/batch whose body lacks the data field or model_name is
\* answered 422 before dispatch, with or without a manager installed: no
\* 503 or 404 of the handler, no model resolved or called, and the metadata
\* (last_used) left as it was.
C20_InvalidBodyIs422 == [][C20_RejectedStep]_vars

\* C20 witness: with a manager holding no_show_predictor, a body without data
\* has been answered 422 and no last_used stamp has been taken.
C20_Witness ==
    /\ manager = "live"
    /\ "no_show_predictor" \in DOMAIN models
    /\ last.op = "predict_batch"
    /\ last.valid = "no_data"
    /\ last.status = 422
    /\ \A n \in DOMAIN model_metadata :
          \A k \in DOMAIN model_metadata[n] : model_metadata[n][k] # UtcNow

\* C20 witness without a manager: the answer is 422, not 503.
C20_WitnessNoManager ==
    /\ manager = "none"
    /\ last.op = "predict_batch"
    /\ last.valid = "no_model_name"
    /\ last.status = 422

\* The bucket the three-level scale gives a probability in thousandths.
ThreeLevel(p) ==
    IF p >= 700 THEN "HIGH" ELSE IF p >= 400 THEN "MEDIUM" ELSE "LOW"

\* C21: predict_batch returns four lists of the length of the batch; for
\* every row the prediction is 1 iff the probability is at least 0.5, the
\* risk level is HIGH, MEDIUM or LOW by the thresholds 0.7 and 0.4, and the
\* explanation is null; predict returns the labels of predict_batch.
C21_PredictBatchLists ==
    calc.fn = "predict_batch" =>
        /\ calc.raw.probabilities = calc.ps
        /\ Len(calc.raw.predictions) = Len(calc.ps)
        /\ Len(calc.raw.risk_levels) = Len(calc.ps)
        /\ Len(calc.raw.explanations) = Len(calc.ps)
        /\ \A i \in 1..Len(calc.ps) :
              /\ calc.raw.predictions[i] \in {0, 1}
              /\ calc.raw.predictions[i] = 1 <=> calc.raw.probabilities[i] >= 500
              /\ calc.raw.risk_levels[i] = ThreeLevel(calc.raw.probabilities[i])
              /\ calc.raw.explanations[i] = "None"
        /\ calc.predict = calc.raw.predictions

\* C21 witness: a batch of two rows at the boundaries 0.5 and 0.399.
C21_Witness ==
    /\ calc.fn = "predict_batch"
    /\ calc.ps = <<500, 399>>
    /\ calc.raw.predictions = <<1, 0>>
    /\ calc.raw.risk_levels = <<"MEDIUM", "LOW">>
    /\ calc.predict = <<1, 0>>

\* At most one thread writes the file of a name, and it belongs to initialize
\* or to cleanup, in their phase of the process.
C22_NoOverlap ==
    \A n \in WellKnown :
        /\ Len(inflight[n]) <= 1
        /\ \A i \in 1..Len(inflight[n]) :
              \/ inflight[n][i] = "initialize" /\ phase = "initializing"
              \/ inflight[n][i] = "cleanup" /\ phase = "cleaning"

\* A step that changes the file of a name ends a thread that was writing it.
C22_WriteStep ==
    \A n \in WellKnown :
        disk'[n] # disk[n] =>
            (Len(inflight[n]) = 1 /\ inflight'[n] = <<>>)

\* C22: over the life of the process a model file is written only by the
\* threads of initialize and of cleanup, and no two writes of the file of one
\* name overlap in time.
C22_WritesNeverOverlap == [](C22_NoOverlap) /\ [][C22_WriteStep]_vars

\* C22 witness: the process is shutting down, cleanup is writing the file of
\* risk_scorer, and initialize had written the file of the same name.
C22_Witness ==
    /\ phase = "cleaning"
    /\ inflight["risk_scorer"] = <<"cleanup">>
    /\ "risk_scorer" \in DOMAIN initLog
    /\ initLog["risk_scorer"].dump = "written"

\* C23: an offset is committed only after its callback has completed: every
\* message at or below the committed offset has had a successful callback, so
\* that a message whose callback raised stays uncommitted, also after later
\* messages were processed and committed.
C23_CommittedOnlyAfterSuccess ==
    \A o \in 1..MaxMessages :
        o <= consumer.committed => o \in consumer.done

\* What holds of the commits: the committed offset is that of a message whose
\* own callback completed, and a callback that raises commits nothing.
C23_CommitFollowsOwnSuccess ==
    /\ consumer.committed > 0 => consumer.committed \in consumer.done
    /\ consumer.committed <= consumer.position

\* The application is configured by the CORS block: the settings loaded.
C24_Configured == calc.fn = "cors" /\ calc.settings = "ok"

\* C24: for every configured ALLOWED_HOSTS list, a list that contains the
\* wildcard "*" gives CORSMiddleware allow_credentials = False.
C24_WildcardDisablesCredentials ==
    (C24_Configured /\ ContainsWildcard(calc.hosts))
        => ~calc.cors.allow_credentials

\* C24, what the code guarantees: the list that is exactly ["*"] disables
\* credentials, and staging and production never load a list with "*".
C24_SoleWildcardDisablesCredentials ==
    C24_Configured =>
        /\ (calc.hosts = <<Wildcard>> => ~calc.cors.allow_credentials)
        /\ (calc.env # "development" => ~ContainsWildcard(calc.hosts))

\* C25: two no-show requests with identical appointment_data and different
\* patient_id or appointment_id receive the same prediction, probability and
\* risk level.
C25_IdentifiersDoNotInfluence ==
    calc.fn = "predict_no_show_pair" =>
        /\ calc.first.resp.status = 200 /\ calc.second.resp.status = 200
        /\ calc.first.resp.prediction = calc.second.resp.prediction
        /\ calc.first.resp.probability = calc.second.resp.probability
        /\ calc.first.resp.risk = calc.second.resp.risk

\* C25, what the code guarantees: the result is the same when the same
\* identifiers are truthy in both requests, so an identifier of 0 or None
\* leaves the features as they are.
C25_FalsyIdentifiersDoNotInfluence ==
    (/\ calc.fn = "predict_no_show_pair"
     /\ Truthy(calc.first.patient_id) = Truthy(calc.second.patient_id)
     /\ Truthy(calc.first.appointment_id) = Truthy(calc.second.appointment_id))
        => calc.first.resp.probability = calc.second.resp.probability

\* C26: across startup and shutdown cycles on one storage directory, a
\* no_show_predictor that initialize installed from disk has its trained flag
\* true.
C26_LoadedPredictorIsTrained ==
    (/\ "no_show_predictor" \in DOMAIN models
     /\ models["no_show_predictor"].origin = "disk"
     /\ models["no_show_predictor"].cls = "NoShowPredictor")
        => models["no_show_predictor"].is_trained = "true"

\* How the most recent save_model call for a name ended in this process:
\* "written", "failed", or "none" when there was no call.
MostRecentSave(n) ==
    IF n \in DOMAIN saveLog
    THEN (IF saveLog[n] = "saved" THEN "written" ELSE "failed")
    ELSE IF n \in DOMAIN initLog /\ initLog[n].dump # "skipped"
    THEN initLog[n].dump
    ELSE "none"

\* Some save_model call for the name wrote its file in this process.
SomeSaveWritten(n) ==
    \/ n \in DOMAIN saveLog /\ saveLog[n] = "saved"
    \/ n \in DOMAIN initLog /\ initLog[n].dump = "written"

\* C27: whenever the most recent save_model call for a name wrote its file,
\* the name's metadata contains saved_at, also after the baseline path of
\* initialize; and saved_at is never set by a save that failed.
C27_SavedAtAfterSuccessfulSave ==
    \A n \in WellKnown :
        /\ MostRecentSave(n) = "written" => HasKey(model_metadata, n, "saved_at")
        /\ HasKey(model_metadata, n, "saved_at") => SomeSaveWritten(n)

\* C27, what the code guarantees: saved_at is present after a save made by
\* cleanup wrote the file, and is present only if some save wrote the file.
C27_SavedAtAfterCleanupSave ==
    \A n \in WellKnown :
        /\ (n \in DOMAIN saveLog /\ saveLog[n] = "saved")
               => HasKey(model_metadata, n, "saved_at")
        /\ HasKey(model_metadata, n, "saved_at") => SomeSaveWritten(n)

\* A label and a risk level that agree.
C28_Consistent(prediction, risk) ==
    /\ risk = "HIGH" => prediction = 1
    /\ risk = "LOW" => prediction = 0
    /\ prediction = 1 => risk \in {"MEDIUM", "HIGH"}

\* C28: every successful no-show response is consistent: HIGH implies
\* prediction 1, LOW implies prediction 0, and prediction 1 implies MEDIUM or
\* HIGH; the same holds for every row of NoShowPredictor.predict_batch.
C28_LabelAgreesWithRisk ==
    /\ (calc.fn = "predict_no_show" /\ calc.resp.status = 200) =>
           C28_Consistent(calc.resp.prediction, calc.resp.risk)
    /\ calc.fn = "predict_no_show_pair" =>
           /\ C28_Consistent(calc.first.resp.prediction, calc.first.resp.risk)
           /\ C28_Consistent(calc.second.resp.prediction, calc.second.resp.risk)
    /\ calc.fn = "predict_batch" =>
           \A i \in 1..Len(calc.ps) :
               C28_Consistent(calc.raw.predictions[i], calc.raw.risk_levels[i])

\* C28 witness: a batch with a HIGH row at 0.7 labelled 1 and a MEDIUM row
\* just below 0.5 labelled 0.
C28_Witness ==
    /\ calc.fn = "predict_batch"
    /\ calc.ps = <<700, 499>>
    /\ calc.raw.predictions = <<1, 0>>
    /\ calc.raw.risk_levels = <<"HIGH", "MEDIUM">>

\* C28 witness for the endpoint: a response of 0.399 is LOW with label 0.
C28_WitnessSingle ==
    /\ calc.fn = "predict_no_show"
    /\ calc.resp.status = 200
    /\ calc.p = 399
    /\ calc.resp.risk = "LOW"
    /\ calc.resp.prediction = 0

\* C29: for each client and each window, at most max_requests requests are
\* forwarded to the application; a window is reset by the first request that
\* arrives at least 60 seconds after its start; a request beyond max_requests
\* in its window is answered 429 and is not forwarded, whatever requests are
\* awaiting the application at that time.
C29_AtMostMaxRequestsForwarded ==
    /\ \A c \in Clients :
          /\ limiter.forwarded[c] <= MaxRequests
          /\ limiter.forwarded[c] <= limiter.store[c].count
    /\ limiter.last.client # "none" =>
          /\ limiter.last.status = 429 <=> limiter.last.count > MaxRequests
          /\ limiter.last.status = 429 => ~limiter.last.forwarded
          /\ limiter.last.forwarded => limiter.last.count <= MaxRequests
          /\ limiter.last.reset <=> limiter.last.arrivedAge >= 60
          /\ limiter.last.reset => limiter.last.count = 1

\* C29 witness: a client has used its window, its next request was answered
\* 429 while forwarded requests were still awaiting the application.
C29_Witness ==
    /\ limiter.last.client = "10.0.0.1"
    /\ limiter.last.status = 429
    /\ limiter.last.arrivedAge = 30
    /\ limiter.forwarded["10.0.0.1"] = MaxRequests
    /\ limiter.pending = MaxPending

\* C29 witness of a reset: the request that arrived 60 seconds after the start
\* of a used window was forwarded as the first of a new one.
C29_WitnessReset ==
    /\ limiter.last.client = "10.0.0.1"
    /\ limiter.last.arrivedAge = 60
    /\ limiter.last.reset
    /\ limiter.last.forwarded
    /\ limiter.forwarded["10.0.0.1"] = 1

\* C30: init_db returns True only if a connectivity test has succeeded in
\* this process, also when an earlier call failed its test, and get_db yields
\* a session only from a factory whose engine passed the test.
C30_SuccessOnlyAfterTest ==
    \A i \in 1..Len(database.log) :
        /\ (database.log[i].fn = "init_db" /\ database.log[i].ret = "True")
               => database.log[i].tested
        /\ (database.log[i].fn = "get_db" /\ database.log[i].ret = "session")
               => database.log[i].tested

\* C30, what the code guarantees: the first call in a process succeeds only
\* if its own connectivity test succeeded, and raises otherwise.
C30_FirstCallReportsItsTest ==
    Len(database.log) >= 1 =>
        /\ database.log[1].raised <=> ~database.log[1].tested
        /\ database.log[1].ret \in {"True", "session"} <=> database.log[1].tested


====
